---- MODULE Spec2Model ----
(***************************************************************************)
(* Model of the relational query layer of the Workforce Intelligence       *)
(* Platform (src/database.py, class WorkforceDatabase) and of the places   *)
(* of src/app.py that call it.                                             *)
(*                                                                         *)
(* Representation.                                                         *)
(*   - A text value is a sequence of one-character strings, so that        *)
(*     substring search, LIKE matching, lower-casing, splitting and        *)
(*     trimming are computed character by character.                       *)
(*   - A cell of a table, and an Optional parameter of a query, is a set   *)
(*     of at most one value: {} is SQL NULL / pandas NaN / Python None,    *)
(*     {v} is the value v.                                                 *)
(*   - A table (SQL table, DataFrame, result set) is a sequence of rows,   *)
(*     a row is a record of cells.  The position in the sequence is the    *)
(*     rowid / the DataFrame's positional order.                           *)
(*   - Columns that every query only copies to its output (Email,          *)
(*     LinkedIn_URL, Role_Title_Variants, Project_Scope, Education,        *)
(*     Certifications, Summary, Date_Completed, Codebase) are left out.    *)
(***************************************************************************)
EXTENDS Integers, Sequences, FiniteSets, TLC

VARIABLES
    conn,       \* self.conn: the six SQL tables of the in-memory database
    dfs,        \* the six DataFrames self.employees_df .. self.roles_df
    op,         \* the caller's position: "idle" between two calls, else the
                \* name of the query operation that has just returned
    args,       \* the parameters of that call
    result,     \* the table it returned
    raised,     \* TRUE iff that call raised instead of returning
    files,      \* the six CSV files of the data folder
    store,      \* the WorkforceDatabase instance: how far its construction
                \* got, the columns of its tables, whether it is closed
    session     \* the dashboard: st.session_state, the widgets' state and
                \* what the last run of the script did

vars == <<conn, dfs, op, args, result, raised, files, store, session>>

(***************************************************************************)
(* Bounds of the model.                                                    *)
(***************************************************************************)
MaxEmployees == 2
MaxRoles == 2
MaxProjects == 2
MaxBilling == 3
MaxDeliverables == 2
MaxResumes == 2
\* the interactions followed in one dashboard session, the opening included
MaxRuns == 4

(***************************************************************************)
(* Cells and Optional parameters.                                          *)
(***************************************************************************)
Null == {}
None == {}
V(x) == {x}
Val(c) == CHOOSE v \in c : TRUE

\* Python truthiness of an Optional number: `if min_amount:`
TruthyNum(x) == x # None /\ x # V(0)
\* Python truthiness of an Optional str or list: `if role:`, `if skills:`
TruthySeq(x) == x # None /\ x # V(<< >>)

\* SQL comparison `a = b`: never true when either side is NULL
SqlEq(a, b) == a # Null /\ b # Null /\ a = b

(***************************************************************************)
(* Text.                                                                   *)
(***************************************************************************)
UpperChars == <<"A","B","C","D","E","F","G","H","I","J","K","L","M",
                "N","O","P","Q","R","S","T","U","V","W","X","Y","Z">>
LowerChars == <<"a","b","c","d","e","f","g","h","i","j","k","l","m",
                "n","o","p","q","r","s","t","u","v","w","x","y","z">>

LowerChar(ch) ==
    IF \E i \in DOMAIN UpperChars : UpperChars[i] = ch
    THEN LowerChars[CHOOSE i \in DOMAIN UpperChars : UpperChars[i] = ch]
    ELSE ch

\* str.lower()
Lower(s) == [i \in 1..Len(s) |-> LowerChar(s[i])]

\* Python `sub in s` for two str
Contains(sub, s) ==
    \E i \in 0..(Len(s) - Len(sub)) : SubSeq(s, i + 1, i + Len(sub)) = sub

\* str(x) of a cell read back from SQLite: NULL arrives as None
Str(c) == IF c = Null THEN <<"N","o","n","e">> ELSE Val(c)

\* SQLite `text LIKE pattern` on two non-NULL texts: '%' matches any run of
\* characters, '_' matches exactly one, letters compare case-insensitively.
RECURSIVE LikeMatch(_, _)
LikeMatch(p, t) ==
    IF p = << >> THEN t = << >>
    ELSE IF Head(p) = "%"
         THEN LikeMatch(Tail(p), t) \/ (t # << >> /\ LikeMatch(p, Tail(t)))
         ELSE /\ t # << >>
              /\ (Head(p) = "_" \/ LowerChar(Head(p)) = LowerChar(Head(t)))
              /\ LikeMatch(Tail(p), Tail(t))

\* `col LIKE ?` with the parameter f"%{value}%"; NULL LIKE x is not true
SqlLike(c, value) == c # Null /\ LikeMatch(<<"%">> \o value \o <<"%">>, Val(c))

\* the characters of the model in code-point order
Digits == <<"0","1","2","3","4","5","6","7","8","9">>
Ascii == <<" ","%",",","-">> \o Digits \o <<";">> \o UpperChars \o <<"_">> \o LowerChars
Code(ch) == CHOOSE i \in DOMAIN Ascii : Ascii[i] = ch

\* a < b for two str (Python), and for two TEXT values under SQLite's BINARY
\* collation: the first differing character decides, a proper prefix is less
RECURSIVE TextLess(_, _)
TextLess(a, b) ==
    IF b = << >> THEN FALSE
    ELSE IF a = << >> THEN TRUE
    ELSE IF Head(a) = Head(b) THEN TextLess(Tail(a), Tail(b))
    ELSE Code(Head(a)) < Code(Head(b))

\* str.strip(): leading and trailing blanks removed
RECURSIVE LStrip(_)
LStrip(s) == IF s # << >> /\ Head(s) = " " THEN LStrip(Tail(s)) ELSE s
RECURSIVE RStrip(_)
RStrip(s) ==
    IF s # << >> /\ s[Len(s)] = " " THEN RStrip(SubSeq(s, 1, Len(s) - 1)) ELSE s
Strip(s) == LStrip(RStrip(s))

\* str.split(';'): the pieces between the separators, empty pieces included
RECURSIVE Split(_)
Split(s) ==
    IF \E i \in DOMAIN s : s[i] = ";"
    THEN LET k == CHOOSE i \in DOMAIN s :
                      s[i] = ";" /\ \A j \in 1..(i - 1) : s[j] # ";"
         IN  <<SubSeq(s, 1, k - 1)>> \o Split(SubSeq(s, k + 1, Len(s)))
    ELSE <<s>>

\* sep.join(parts)
RECURSIVE Join(_, _)
Join(parts, sep) ==
    IF parts = << >> THEN << >>
    ELSE IF Len(parts) = 1 THEN parts[1]
    ELSE parts[1] \o sep \o Join(Tail(parts), sep)

(***************************************************************************)
(* Sequences as tables.                                                    *)
(***************************************************************************)
\* the concatenation of the sequences of ss, in order
Concat(ss) ==
    LET f[i \in 0..Len(ss)] == IF i = 0 THEN << >> ELSE f[i - 1] \o ss[i]
    IN  f[Len(ss)]

\* all sequences over S of length at most n
SeqUpTo(S, n) == UNION {[1..k -> S] : k \in 0..n}

\* the values of column f of t, as a set of cells
Column(t, f) == {t[i][f] : i \in DOMAIN t}

\* the elements of s without repetitions, in order of first occurrence
Dedup(s) ==
    LET f[i \in 0..Len(s)] ==
            IF i = 0 THEN << >>
            ELSE IF \E j \in 1..(i - 1) : s[j] = s[i] THEN f[i - 1]
                 ELSE Append(f[i - 1], s[i])
    IN  f[Len(s)]

(***************************************************************************)
(* SQL: FROM, LEFT JOIN, ORDER BY, GROUP BY, aggregates.                   *)
(***************************************************************************)
\* the all-NULL rows a LEFT JOIN supplies for a left row without a match
NullEmployee == [Employee_ID |-> Null, Name |-> Null, Role_ID |-> Null,
                 Job_Title |-> Null, Location |-> Null, Skills |-> Null]
NullRole == [Role_ID |-> Null, Standard_Role |-> Null]
NullProject == [Billing_Code |-> Null, Project_Name |-> Null, Client |-> Null,
                Industry |-> Null, Technologies |-> Null, Dollar_Amount |-> Null]
NullBilling == [Billing_Code |-> Null, Employee_ID |-> Null, Year |-> Null,
                Hours_Billed |-> Null, Role_in_Project |-> Null]
NullResume == [Employee_ID |-> Null, Experience |-> Null]
NullDeliverable == [Billing_Code |-> Null, Deliverable |-> Null, Topic_Area |-> Null,
                    Technologies |-> Null, Client |-> Null]

\* `FROM table alias`: one joined row per table row, holding it under its alias
From(table, alias) == [i \in DOMAIN table |-> (alias :> table[i])]

\* the rows of `right` with right.rk = l.lk (in rowid order), or the single
\* all-NULL row when none matches
Matches(l, lk, right, rk, nullRow) ==
    LET m == SelectSeq(right, LAMBDA r : SqlEq(l[lk], r[rk]))
    IN  IF m = << >> THEN <<nullRow>> ELSE m

\* `left JOIN right ra ON la.lk = ra.rk`: a left row without a match is dropped
InnerJoin(left, la, lk, right, ra, rk, nullRow) ==
    Concat([i \in DOMAIN left |->
              LET m == SelectSeq(right, LAMBDA r : SqlEq(left[i][la][lk], r[rk]))
              IN  [k \in DOMAIN m |-> left[i] @@ (ra :> m[k])]])

\* `left LEFT JOIN right ra ON la.lk = ra.rk`: for every joined row of `left`,
\* in order, one row per match, the matching row added under the alias ra
LeftJoin(left, la, lk, right, ra, rk, nullRow) ==
    Concat([i \in DOMAIN left |->
              LET m == Matches(left[i][la], lk, right, rk, nullRow)
              IN  [k \in DOMAIN m |-> left[i] @@ (ra :> m[k])]])

\* SQLite's ordering of two numeric cells: NULL sorts before every number
CellLess(a, b) == IF a = Null THEN b # Null ELSE b # Null /\ Val(a) < Val(b)

\* SQLite's ordering of two TEXT cells: NULL sorts before every text
CellLessText(a, b) ==
    IF a = Null THEN b # Null ELSE b # Null /\ TextLess(Val(a), Val(b))

\* one term of an ORDER BY / GROUP BY list: the column, its type ("num" or
\* "text") and the direction
Asc(col, type) == [col |-> col, type |-> type, desc |-> FALSE]
Desc(col, type) == [col |-> col, type |-> type, desc |-> TRUE]

\* the cell a comes before the cell b under the term
TermBefore(term, a, b) ==
    LET lo == IF term.desc THEN b ELSE a
        hi == IF term.desc THEN a ELSE b
    IN  IF term.type = "num" THEN CellLess(lo, hi) ELSE CellLessText(lo, hi)

\* row x must come before row y under the list of terms: the first term on
\* which they differ decides
Before(x, y, terms) ==
    \E i \in DOMAIN terms :
        /\ \A j \in 1..(i - 1) : x[terms[j].col] = y[terms[j].col]
        /\ TermBefore(terms[i], x[terms[i].col], y[terms[i].col])

\* x put into the sorted sequence, after the longest prefix none of whose
\* rows it must precede
Insert(sorted, x, terms) ==
    LET n == IF \E i \in DOMAIN sorted : Before(x, sorted[i], terms)
             THEN (CHOOSE i \in DOMAIN sorted :
                      /\ Before(x, sorted[i], terms)
                      /\ \A j \in 1..(i - 1) : ~Before(x, sorted[j], terms)) - 1
             ELSE Len(sorted)
    IN  SubSeq(sorted, 1, n) \o <<x>> \o SubSeq(sorted, n + 1, Len(sorted))

\* ORDER BY terms: rows that tie on every term keep the order in which the
\* scan produced them
OrderBy(t, terms) ==
    LET f[i \in 0..Len(t)] ==
            IF i = 0 THEN << >> ELSE Insert(f[i - 1], t[i], terms)
    IN  f[Len(t)]

\* the ordering with DESC left off the second term
YearDescHoursAsc == <<Desc("Year", "num"), Asc("Hours_Billed", "num")>>

\* ORDER BY b.Year DESC, b.Hours_Billed DESC
YearDescHoursDesc == <<Desc("Year", "num"), Desc("Hours_Billed", "num")>>

\* ORDER BY b.Hours_Billed DESC
HoursDesc == <<Desc("Hours_Billed", "num")>>

\* two rows agree on every GROUP BY term (NULLs form one group)
SameGroup(x, y, terms) == \A i \in DOMAIN terms : x[terms[i].col] = y[terms[i].col]

\* GROUP BY terms: the groups of t (each a table, rows in scan order), one
\* per distinct key, in ascending key order as SQLite's sorter emits them
GroupBy(t, terms) ==
    LET first[i \in 0..Len(t)] ==
            IF i = 0 THEN << >>
            ELSE IF \E j \in 1..(i - 1) : SameGroup(t[j], t[i], terms)
                 THEN first[i - 1]
                 ELSE Append(first[i - 1], t[i])
        keys == OrderBy(first[Len(t)], terms)
    IN  [k \in DOMAIN keys |-> SelectSeq(t, LAMBDA r : SameGroup(r, keys[k], terms))]

\* SUM(col) over rows: NULLs are skipped, NULL when nothing is left
SumCells(t, f) ==
    LET g[i \in 0..Len(t)] ==
            IF i = 0 THEN 0
            ELSE g[i - 1] + (IF t[i][f] = Null THEN 0 ELSE Val(t[i][f]))
    IN  IF \A i \in DOMAIN t : t[i][f] = Null THEN Null ELSE V(g[Len(t)])

\* COUNT(col): the rows whose col is not NULL
CountCells(t, f) == V(Cardinality({i \in DOMAIN t : t[i][f] # Null}))

\* COUNT(DISTINCT col)
CountDistinct(t, f) == V(Cardinality(Column(t, f) \ {Null}))

\* GROUP_CONCAT(DISTINCT col): the distinct non-NULL values joined by ','
GroupConcatDistinct(t, f) ==
    LET vals == Dedup(SelectSeq([i \in DOMAIN t |-> t[i][f]], LAMBDA x : x # Null))
    IN  IF vals = << >> THEN Null
        ELSE V(Join([i \in DOMAIN vals |-> Val(vals[i])], <<",">>))

(***************************************************************************)
(* The in-process filters on the multi-valued columns.                     *)
(***************************************************************************)
\* lambda x: any(skill.lower() in str(x).lower() for skill in skills)
SkillsMask(skills, x) ==
    \E k \in DOMAIN skills : Contains(Lower(skills[k]), Lower(Str(x)))

\* lambda x: technology.lower() in str(x).lower()
TechnologyMask(technology, x) == Contains(Lower(technology), Lower(Str(x)))

(***************************************************************************)
(* The query operations of WorkforceDatabase.  Each takes the tables it    *)
(* reads and its parameters, and yields [raised, rows].                    *)
(***************************************************************************)
Returns(rows) == [raised |-> FALSE, rows |-> rows]
Raises == [raised |-> TRUE, rows |-> << >>]

\* the directory with the supplied filters combined by OR: the rows that
\* pass at least one of them
get_employee_directory_AnyFilter(c, skills, role, location, title) ==
    LET joined == LeftJoin(From(c.employees, "e"), "e", "Role_ID",
                           c.roles, "r", "Role_ID", NullRole)
        df == [i \in 1..Len(joined) |->
                [Employee_ID |-> joined[i].e.Employee_ID,
                 Name |-> joined[i].e.Name,
                 Job_Title |-> joined[i].e.Job_Title,
                 Location |-> joined[i].e.Location,
                 Skills |-> joined[i].e.Skills,
                 Standard_Role |-> joined[i].r.Standard_Role]]
    IN  Returns(IF TruthySeq(skills) \/ TruthySeq(role) \/ TruthySeq(location)
                      \/ TruthySeq(title)
                THEN SelectSeq(df, LAMBDA row :
                        \/ TruthySeq(role) /\ SqlLike(row.Standard_Role, Val(role))
                        \/ TruthySeq(location) /\ SqlLike(row.Location, Val(location))
                        \/ TruthySeq(title) /\ SqlLike(row.Job_Title, Val(title))
                        \/ TruthySeq(skills) /\ SkillsMask(Val(skills), row.Skills))
                ELSE df)

get_employee_directory(c, skills, role, location, title) ==
    LET joined == LeftJoin(From(c.employees, "e"), "e", "Role_ID",
                           c.roles, "r", "Role_ID", NullRole)
        where == SelectSeq(joined, LAMBDA j :
                    /\ TruthySeq(role) => SqlLike(j.r.Standard_Role, Val(role))
                    /\ TruthySeq(location) => SqlLike(j.e.Location, Val(location))
                    /\ TruthySeq(title) => SqlLike(j.e.Job_Title, Val(title)))
        df == [i \in 1..Len(where) |->
                [Employee_ID |-> where[i].e.Employee_ID,
                 Name |-> where[i].e.Name,
                 Job_Title |-> where[i].e.Job_Title,
                 Location |-> where[i].e.Location,
                 Skills |-> where[i].e.Skills,
                 Standard_Role |-> where[i].r.Standard_Role]]
    IN  Returns(IF TruthySeq(skills)
                THEN SelectSeq(df, LAMBDA row : SkillsMask(Val(skills), row.Skills))
                ELSE df)

get_projects_dashboard(c, client, technology, min_amount, max_amount, industry) ==
    LET df == SelectSeq(c.projects, LAMBDA p :
                /\ TruthySeq(client) => SqlLike(p.Client, Val(client))
                /\ TruthySeq(industry) => SqlLike(p.Industry, Val(industry))
                /\ TruthyNum(min_amount) =>
                      (p.Dollar_Amount # Null /\ Val(p.Dollar_Amount) >= Val(min_amount))
                /\ TruthyNum(max_amount) =>
                      (p.Dollar_Amount # Null /\ Val(p.Dollar_Amount) <= Val(max_amount)))
    IN  Returns(IF TruthySeq(technology)
                THEN SelectSeq(df, LAMBDA row :
                        TechnologyMask(Val(technology), row.Technologies))
                ELSE df)

get_billing_by_employee(c, employee_id) ==
    LET joined == LeftJoin(LeftJoin(From(c.billing, "b"), "b", "Employee_ID",
                                    c.employees, "e", "Employee_ID", NullEmployee),
                           "b", "Billing_Code",
                           c.projects, "p", "Billing_Code", NullProject)
        where == SelectSeq(joined, LAMBDA j :
                    TruthyNum(employee_id) => SqlEq(j.b.Employee_ID, employee_id))
        rows == [i \in 1..Len(where) |->
                  [Employee_ID |-> where[i].b.Employee_ID,
                   Name |-> where[i].e.Name,
                   Billing_Code |-> where[i].b.Billing_Code,
                   Project_Name |-> where[i].p.Project_Name,
                   Client |-> where[i].p.Client,
                   Year |-> where[i].b.Year,
                   Hours_Billed |-> where[i].b.Hours_Billed,
                   Role_in_Project |-> where[i].b.Role_in_Project]]
    IN  Returns(OrderBy(rows, YearDescHoursDesc))

get_billing_by_project(c, billing_code) ==
    LET joined == LeftJoin(LeftJoin(From(c.billing, "b"), "b", "Billing_Code",
                                    c.projects, "p", "Billing_Code", NullProject),
                           "b", "Employee_ID",
                           c.employees, "e", "Employee_ID", NullEmployee)
        where == SelectSeq(joined, LAMBDA j :
                    TruthySeq(billing_code) => SqlEq(j.b.Billing_Code, billing_code))
        rows == [i \in 1..Len(where) |->
                  [Billing_Code |-> where[i].b.Billing_Code,
                   Project_Name |-> where[i].p.Project_Name,
                   Client |-> where[i].p.Client,
                   Employee_ID |-> where[i].b.Employee_ID,
                   Name |-> where[i].e.Name,
                   Job_Title |-> where[i].e.Job_Title,
                   Year |-> where[i].b.Year,
                   Hours_Billed |-> where[i].b.Hours_Billed,
                   Role_in_Project |-> where[i].b.Role_in_Project]]
    IN  Returns(OrderBy(rows, HoursDesc))

get_billing_by_year(c, year) ==
    LET joined == LeftJoin(From(c.billing, "b"), "b", "Billing_Code",
                           c.projects, "p", "Billing_Code", NullProject)
        where == SelectSeq(joined, LAMBDA j :
                    TruthyNum(year) => SqlEq(j.b.Year, year))
        flat == [i \in 1..Len(where) |->
                  [Year |-> where[i].b.Year,
                   Client |-> where[i].p.Client,
                   Industry |-> where[i].p.Industry,
                   Project_Name |-> where[i].p.Project_Name,
                   Hours_Billed |-> where[i].b.Hours_Billed,
                   Employee_ID |-> where[i].b.Employee_ID]]
        groups == GroupBy(flat, <<Asc("Year", "num"), Asc("Client", "text"),
                                  Asc("Industry", "text"), Asc("Project_Name", "text")>>)
        rows == [g \in 1..Len(groups) |->
                  [Year |-> groups[g][1].Year,
                   Client |-> groups[g][1].Client,
                   Industry |-> groups[g][1].Industry,
                   Project_Name |-> groups[g][1].Project_Name,
                   Total_Hours |-> SumCells(groups[g], "Hours_Billed"),
                   Employee_Count |-> CountDistinct(groups[g], "Employee_ID")]]
    IN  Returns(OrderBy(rows, <<Desc("Year", "num"), Desc("Total_Hours", "num")>>))

get_resume_matrix(c, employee_id) ==
    LET joined == LeftJoin(From(c.employees, "e"), "e", "Employee_ID",
                           c.resume_data, "r", "Employee_ID", NullResume)
        where == SelectSeq(joined, LAMBDA j :
                    TruthyNum(employee_id) => SqlEq(j.e.Employee_ID, employee_id))
    IN  Returns([i \in 1..Len(where) |->
                  [Employee_ID |-> where[i].e.Employee_ID,
                   Name |-> where[i].e.Name,
                   Job_Title |-> where[i].e.Job_Title,
                   Location |-> where[i].e.Location,
                   Skills |-> where[i].e.Skills,
                   Experience |-> where[i].r.Experience]])

get_deliverables_tracker(c, billing_code, topic_area, client, technology) ==
    LET joined == LeftJoin(From(c.deliverables, "d"), "d", "Billing_Code",
                           c.projects, "p", "Billing_Code", NullProject)
        where == SelectSeq(joined, LAMBDA j :
                    /\ TruthySeq(billing_code) => SqlEq(j.d.Billing_Code, billing_code)
                    /\ TruthySeq(topic_area) => SqlLike(j.d.Topic_Area, Val(topic_area))
                    /\ TruthySeq(client) => SqlLike(j.d.Client, Val(client)))
        df == [i \in 1..Len(where) |->
                [Billing_Code |-> where[i].d.Billing_Code,
                 Project_Name |-> where[i].p.Project_Name,
                 Deliverable |-> where[i].d.Deliverable,
                 Topic_Area |-> where[i].d.Topic_Area,
                 Technologies |-> where[i].d.Technologies,
                 Client |-> where[i].d.Client,
                 Industry |-> where[i].p.Industry,
                 Dollar_Amount |-> where[i].p.Dollar_Amount]]
    IN  Returns(IF TruthySeq(technology)
                THEN SelectSeq(df, LAMBDA row :
                        TechnologyMask(Val(technology), row.Technologies))
                ELSE df)

\* the revenue of a group with every project counted once, whatever the
\* number of its billing rows
Total_Revenue_OncePerProject(group) ==
    SumCells(Dedup([i \in DOMAIN group |->
                      [Billing_Code |-> group[i].Billing_Code,
                       Dollar_Amount |-> group[i].Dollar_Amount]]),
             "Dollar_Amount")

\* SUM(p.Dollar_Amount) as Total_Revenue: over the joined rows of the group,
\* one per billing row
Total_Revenue(group) == SumCells(group, "Dollar_Amount")

get_analytics_by_industry(c) ==
    LET joined == LeftJoin(From(c.billing, "b"), "b", "Billing_Code",
                           c.projects, "p", "Billing_Code", NullProject)
        flat == [i \in 1..Len(joined) |->
                  [Industry |-> joined[i].p.Industry,
                   Client |-> joined[i].p.Client,
                   Billing_Code |-> joined[i].p.Billing_Code,
                   Hours_Billed |-> joined[i].b.Hours_Billed,
                   Employee_ID |-> joined[i].b.Employee_ID,
                   Dollar_Amount |-> joined[i].p.Dollar_Amount]]
        groups == GroupBy(flat, <<Asc("Industry", "text"), Asc("Client", "text")>>)
        rows == [g \in 1..Len(groups) |->
                  [Industry |-> groups[g][1].Industry,
                   Client |-> groups[g][1].Client,
                   Project_Count |-> CountDistinct(groups[g], "Billing_Code"),
                   Total_Hours |-> SumCells(groups[g], "Hours_Billed"),
                   Employee_Count |-> CountDistinct(groups[g], "Employee_ID"),
                   Total_Revenue |-> Total_Revenue(groups[g])]]
    IN  Returns(OrderBy(rows, <<Desc("Total_Hours", "num")>>))

\* one row per employee that has skills, for the first skill of the list
skills_data_FirstSkillOnly(employees_df) ==
    Concat([i \in DOMAIN employees_df |->
              IF employees_df[i].Skills # Null
              THEN <<[Skill |-> V(Strip(Split(Val(employees_df[i].Skills))[1])),
                      Employee_ID |-> employees_df[i].Employee_ID,
                      Name |-> employees_df[i].Name,
                      Location |-> employees_df[i].Location]>>
              ELSE << >>])

\* one row per (employee, skill) of the rows that have skills:
\* [s.strip() for s in str(row['Skills']).split(';')]
skills_data(employees_df) ==
    Concat([i \in DOMAIN employees_df |->
              IF employees_df[i].Skills # Null
              THEN LET skills == Split(Val(employees_df[i].Skills))
                   IN  [k \in 1..Len(skills) |->
                          [Skill |-> V(Strip(skills[k])),
                           Employee_ID |-> employees_df[i].Employee_ID,
                           Name |-> employees_df[i].Name,
                           Location |-> employees_df[i].Location]]
              ELSE << >>])

\* lambda x: ', '.join(sorted(set(x))) on the Location column of a group
JoinedLocations(group) ==
    LET locs == OrderBy(Dedup([i \in DOMAIN group |-> [Location |-> group[i].Location]]),
                        <<Asc("Location", "text")>>)
    IN  V(Join([i \in DOMAIN locs |-> Val(locs[i].Location)], <<",", " ">>))

\* reads self.employees_df, not the SQL tables.  pd.DataFrame([]) has no
\* 'Skill' column, so groupby('Skill') raises KeyError when no row has a
\* skill; ', '.join(sorted(set(x))) raises TypeError when a Location of the
\* group is NaN.  groupby yields the groups in ascending order of the skill;
\* sort_values('Employee_Count', ascending=False) is, on the few rows of the
\* model, numpy's insertion sort, which keeps ties in that order.
get_analytics_by_skill(employees_df) ==
    LET data == skills_data(employees_df)
        groups == GroupBy(data, <<Asc("Skill", "text")>>)
        summary == [g \in 1..Len(groups) |->
                     [Skill |-> groups[g][1].Skill,
                      Employee_Count |-> CountCells(groups[g], "Employee_ID"),
                      Locations |-> JoinedLocations(groups[g])]]
    IN  IF data = << >> THEN Raises
        ELSE IF \E i \in DOMAIN data : data[i].Location = Null THEN Raises
        ELSE Returns(OrderBy(summary, <<Desc("Employee_Count", "num")>>))

get_analytics_by_role(c) ==
    LET joined == LeftJoin(From(c.employees, "e"), "e", "Role_ID",
                           c.roles, "r", "Role_ID", NullRole)
        flat == [i \in 1..Len(joined) |->
                  [Standard_Role |-> joined[i].r.Standard_Role,
                   Employee_ID |-> joined[i].e.Employee_ID,
                   Location |-> joined[i].e.Location]]
        groups == GroupBy(flat, <<Asc("Standard_Role", "text")>>)
        rows == [g \in 1..Len(groups) |->
                  [Standard_Role |-> groups[g][1].Standard_Role,
                   Employee_Count |-> CountCells(groups[g], "Employee_ID"),
                   Locations |-> GroupConcatDistinct(groups[g], "Location")]]
    IN  Returns(OrderBy(rows, <<Desc("Employee_Count", "num")>>))

\* int(m) of a run of digits
RECURSIVE DecimalValue(_)
DecimalValue(ds) ==
    IF ds = << >> THEN 0
    ELSE 10 * DecimalValue(SubSeq(ds, 1, Len(ds) - 1))
         + ((CHOOSE i \in DOMAIN Digits : Digits[i] = ds[Len(ds)]) - 1)

IsDigit(ch) == \E i \in DOMAIN Digits : Digits[i] = ch

\* the years of the last match only
extract_years_LastMatch(exp_str) ==
    IF exp_str = Null THEN 0
    ELSE LET s == Val(exp_str)
             ends == {j \in DOMAIN s : IsDigit(s[j]) /\ j < Len(s) /\ s[j + 1] = "y"}
             last == CHOOSE j \in ends : \A k \in ends : k <= j
             start == CHOOSE k \in 1..last :
                         /\ \A i \in k..last : IsDigit(s[i])
                         /\ (k = 1 \/ ~IsDigit(s[k - 1]))
         IN  IF ends = {} THEN 0 ELSE DecimalValue(SubSeq(s, start, last))

\* extract_years: sum(int(m) for m in re.findall(r'(\d+)y', str(exp_str))),
\* 0 for a missing value.  A match is a maximal run of digits directly
\* followed by 'y'.
extract_years(exp_str) ==
    IF exp_str = Null THEN 0
    ELSE LET s == Val(exp_str)
             ends == {j \in DOMAIN s : IsDigit(s[j]) /\ j < Len(s) /\ s[j + 1] = "y"}
             start(j) == CHOOSE k \in 1..j :
                            /\ \A i \in k..j : IsDigit(s[i])
                            /\ (k = 1 \/ ~IsDigit(s[k - 1]))
             f[i \in 0..Len(s)] ==
                 IF i = 0 THEN 0
                 ELSE f[i - 1] + (IF i \in ends
                                  THEN DecimalValue(SubSeq(s, start(i), i))
                                  ELSE 0)
         IN  f[Len(s)]

\* FROM employees e LEFT JOIN roles r .. resume_data rd .. billing b .. projects p
SearchJoin(c) ==
    LeftJoin(LeftJoin(LeftJoin(LeftJoin(From(c.employees, "e"),
                "e", "Role_ID", c.roles, "r", "Role_ID", NullRole),
                "e", "Employee_ID", c.resume_data, "rd", "Employee_ID", NullResume),
                "e", "Employee_ID", c.billing, "b", "Employee_ID", NullBilling),
                "b", "Billing_Code", c.projects, "p", "Billing_Code", NullProject)

\* the columns of a joined row that the SELECT list and GROUP BY read
SearchColumns(j) ==
    [Employee_ID |-> j.e.Employee_ID,
     Name |-> j.e.Name,
     Job_Title |-> j.e.Job_Title,
     Location |-> j.e.Location,
     Skills |-> j.e.Skills,
     Standard_Role |-> j.r.Standard_Role,
     Experience |-> j.rd.Experience,
     Client |-> j.p.Client,
     Industry |-> j.p.Industry,
     Hours_Billed |-> j.b.Hours_Billed]

\* the result row of one group: its key columns and the three aggregates
SearchAggregates(group) ==
    [Employee_ID |-> group[1].Employee_ID,
     Name |-> group[1].Name,
     Job_Title |-> group[1].Job_Title,
     Location |-> group[1].Location,
     Skills |-> group[1].Skills,
     Standard_Role |-> group[1].Standard_Role,
     Experience |-> group[1].Experience,
     Clients_Worked |-> GroupConcatDistinct(group, "Client"),
     Industries_Worked |-> GroupConcatDistinct(group, "Industry"),
     Total_Hours_Billed |-> SumCells(group, "Hours_Billed")]

complex_search(c, skills, location, role, client_experience, industry_experience, min_years_exp) ==
    LET where == SelectSeq(SearchJoin(c), LAMBDA j :
                    /\ TruthySeq(role) => SqlLike(j.r.Standard_Role, Val(role))
                    /\ TruthySeq(location) => SqlLike(j.e.Location, Val(location))
                    /\ TruthySeq(client_experience) =>
                          SqlLike(j.p.Client, Val(client_experience))
                    /\ TruthySeq(industry_experience) =>
                          SqlLike(j.p.Industry, Val(industry_experience)))
        flat == [i \in 1..Len(where) |-> SearchColumns(where[i])]
        groups == GroupBy(flat, <<Asc("Employee_ID", "num"), Asc("Name", "text"),
                                  Asc("Job_Title", "text"), Asc("Location", "text"),
                                  Asc("Skills", "text"), Asc("Standard_Role", "text"),
                                  Asc("Experience", "text")>>)
        df == [g \in 1..Len(groups) |-> SearchAggregates(groups[g])]
        by_skills == IF TruthySeq(skills)
                     THEN SelectSeq(df, LAMBDA row : SkillsMask(Val(skills), row.Skills))
                     ELSE df
    IN  Returns(IF TruthyNum(min_years_exp)
                THEN SelectSeq(by_skills, LAMBDA row :
                        extract_years(row.Experience) >= Val(min_years_exp))
                ELSE by_skills)

get_employee_project_history(c, employee_id) ==
    LET joined == LeftJoin(LeftJoin(LeftJoin(From(c.employees, "e"),
                    "e", "Employee_ID", c.billing, "b", "Employee_ID", NullBilling),
                    "b", "Billing_Code", c.projects, "p", "Billing_Code", NullProject),
                    "b", "Billing_Code", c.deliverables, "d", "Billing_Code",
                    NullDeliverable)
        where == SelectSeq(joined, LAMBDA j : SqlEq(j.e.Employee_ID, employee_id))
        rows == [i \in 1..Len(where) |->
                  [Name |-> where[i].e.Name,
                   Job_Title |-> where[i].e.Job_Title,
                   Project_Name |-> where[i].p.Project_Name,
                   Client |-> where[i].p.Client,
                   Industry |-> where[i].p.Industry,
                   Technologies |-> where[i].p.Technologies,
                   Year |-> where[i].b.Year,
                   Hours_Billed |-> where[i].b.Hours_Billed,
                   Role_in_Project |-> where[i].b.Role_in_Project,
                   Deliverable |-> where[i].d.Deliverable]]
    IN  Returns(OrderBy(rows, YearDescHoursDesc))

(***************************************************************************)
(* The contents the six source files may have.  Nothing in load_all_data   *)
(* enforces a key: a table may hold a NULL cell, a repeated key, or a      *)
(* reference to a row that does not exist.                                 *)
(***************************************************************************)
Employee(id, name, role_id, title, location, skills) ==
    [Employee_ID |-> V(id), Name |-> V(name), Role_ID |-> V(role_id),
     Job_Title |-> V(title), Location |-> location, Skills |-> skills]
Role(id, standard_role) == [Role_ID |-> V(id), Standard_Role |-> V(standard_role)]
Project(code, name, client, industry, technologies, amount) ==
    [Billing_Code |-> V(code), Project_Name |-> V(name), Client |-> V(client),
     Industry |-> V(industry), Technologies |-> technologies,
     Dollar_Amount |-> V(amount)]
Billing(code, employee_id, year, hours, role_in_project) ==
    [Billing_Code |-> V(code), Employee_ID |-> V(employee_id), Year |-> V(year),
     Hours_Billed |-> V(hours), Role_in_Project |-> V(role_in_project)]
Resume(employee_id, experience) ==
    [Employee_ID |-> V(employee_id), Experience |-> experience]
Deliverable(code, deliverable, topic_area, technologies, client) ==
    [Billing_Code |-> V(code), Deliverable |-> V(deliverable),
     Topic_Area |-> V(topic_area), Technologies |-> technologies,
     Client |-> V(client)]

Alice == Employee(1, <<"A","l">>, 1, <<"S","r"," ","E","n","g">>,
                  V(<<"T","X">>), V(<<"P","y",";"," ","G","o">>))
Bob == Employee(2, <<"B","o">>, 2, <<"M","g","r">>,
                V(<<"N","Y">>), V(<<"G","o">>))
\* no skills, no location, and a Role_ID that no role carries
Cy == Employee(3, <<"C","y">>, 9, <<"J","r"," ","E","n","g">>, Null, Null)
\* skills but no location
Di == Employee(4, <<"D","i">>, 1, <<"S","r"," ","E","n","g">>,
               Null, V(<<"P","y">>))
EmployeePool == {Alice, Bob, Cy, Di}
\* a skill written twice
Eve == Employee(5, <<"E","v">>, 2, <<"M","g","r">>,
                V(<<"N","Y">>), V(<<"G","o",";","G","o">>))
\* a skill list that ends with the separator
Fay == Employee(6, <<"F","a">>, 1, <<"S","r"," ","E","n","g">>,
                V(<<"T","X">>), V(<<"P","y",";">>))
SkilledPool == EmployeePool \cup {Eve, Fay}

Engineer == Role(1, <<"E","n","g">>)
Manager == Role(2, <<"M","g","r">>)
\* a second row for Role_ID 1
Lead == Role(1, <<"L","e","a","d">>)
RolePool == {Engineer, Manager, Lead}

PC1 == <<"P","C","-","1">>
PC2 == <<"P","C","-","2">>
PC9 == <<"P","C","-","9">>
FacialRec == Project(PC1, <<"F","R">>, <<"T","X"," ","P","D">>, <<"L","a","w">>,
                     V(<<"P","y",";","A","W","S">>), 500000)
Portal == Project(PC2, <<"P","o","r","t">>, <<"D","O","T">>, <<"G","o","v">>,
                  Null, 250000)
\* an unpaid pilot for the same client
Pilot == Project(PC9, <<"P","i","l","o","t">>, <<"T","X"," ","P","D">>,
                 <<"L","a","w">>, V(<<"G","o">>), 0)
ProjectPool == {FacialRec, Portal, Pilot}

BillingPool ==
    { Billing(PC1, 1, 2024, 100, <<"D","e","v">>),
      Billing(PC1, 2, 2024, 80, <<"P","M">>),
      Billing(PC2, 1, 2023, 100, <<"D","e","v">>),
      Billing(PC2, 2, 2024, 120, <<"P","M">>),
      \* an Employee_ID of 0, a year of 0 and a code no project carries
      Billing(<<"X">>, 0, 0, 40, <<"Q","A">>) }

ResumePool ==
    { Resume(1, V(<<"7","y"," ","P","y",","," ","3","y"," ","L","d">>)),
      Resume(2, V(<<"1","2","y"," ","G","o">>)),
      Resume(2, Null),
      \* digits and a 'y' that are not next to each other
      Resume(1, V(<<"3"," ","y","r","s",","," ","y","2","k">>)) }

DeliverablePool ==
    { Deliverable(PC1, <<"A","P","I">>, <<"M","L">>, V(<<"P","y">>),
                  <<"T","X"," ","P","D">>),
      Deliverable(PC1, <<"D","o","c">>, <<"O","p","s">>, Null,
                  <<"T","X"," ","P","D">>),
      Deliverable(PC2, <<"U","I">>, <<"W","e","b">>, V(<<"J","S",";","G","o">>),
                  <<"D","O","T">>) }

EmptyTables ==
    [employees |-> << >>, roles |-> << >>, projects |-> << >>,
     billing |-> << >>, resume_data |-> << >>, deliverables |-> << >>]

\* one store with every table filled and every relationship intact
DemoTables ==
    [employees |-> <<Alice, Bob>>,
     roles |-> <<Engineer, Manager>>,
     projects |-> <<FacialRec, Portal>>,
     billing |-> <<Billing(PC1, 1, 2024, 100, <<"D","e","v">>),
                   Billing(PC1, 2, 2024, 80, <<"P","M">>),
                   Billing(PC2, 1, 2023, 100, <<"D","e","v">>)>>,
     resume_data |-> <<Resume(1, V(<<"7","y"," ","P","y",","," ","3","y"," ","L","d">>)),
                       Resume(2, V(<<"1","2","y"," ","G","o">>))>>,
     deliverables |-> <<Deliverable(PC1, <<"A","P","I">>, <<"M","L">>, V(<<"P","y">>),
                                    <<"T","X"," ","P","D">>),
                        Deliverable(PC1, <<"D","o","c">>, <<"O","p","s">>, Null,
                                    <<"T","X"," ","P","D">>)>>]

\* one store with NULL cells, repeated keys and dangling references
RaggedTables ==
    [employees |-> <<Cy, Alice>>,
     roles |-> <<Engineer, Lead>>,
     projects |-> <<Pilot, Portal>>,
     billing |-> <<Billing(<<"X">>, 0, 0, 40, <<"Q","A">>),
                   Billing(PC2, 1, 2023, 100, <<"D","e","v">>)>>,
     resume_data |-> <<Resume(2, Null)>>,
     deliverables |-> <<Deliverable(PC2, <<"U","I">>, <<"W","e","b">>,
                                    V(<<"J","S",";","G","o">>), <<"D","O","T">>)>>]

\* stores that differ in the employees and roles tables
EmployeeStores ==
    {[EmptyTables EXCEPT !.employees = e, !.roles = r] :
        e \in SeqUpTo(EmployeePool, MaxEmployees), r \in SeqUpTo(RolePool, MaxRoles)}

\* stores that differ in the skill lists of the employees
SkillStores ==
    {[EmptyTables EXCEPT !.employees = e, !.roles = <<Engineer, Manager>>] :
        e \in SeqUpTo(SkilledPool, MaxEmployees)}

\* stores that differ in what an employee is joined to: roles, resume rows
\* and billing rows
SearchStores ==
    {[DemoTables EXCEPT !.employees = e, !.roles = r, !.resume_data = rd,
                        !.billing = b] :
        e \in {DemoTables.employees, RaggedTables.employees},
        r \in {DemoTables.roles, RaggedTables.roles},
        rd \in SeqUpTo(ResumePool, MaxResumes),
        b \in {<< >>, DemoTables.billing, RaggedTables.billing}}

\* stores that differ in the projects and deliverables tables
ProjectStores ==
    {[EmptyTables EXCEPT !.projects = p, !.deliverables = d] :
        p \in SeqUpTo(ProjectPool, MaxProjects),
        d \in SeqUpTo(DeliverablePool, MaxDeliverables)}

\* stores that differ in the billing table and in what it refers to
BillingStores ==
    {[EmptyTables EXCEPT !.billing = b, !.employees = e, !.projects = p,
                         !.deliverables = d] :
        b \in SeqUpTo(BillingPool, MaxBilling),
        e \in {<<Alice, Bob>>, <<Bob>>, <<Bob, Bob>>},
        p \in {<<FacialRec, Portal>>, <<Portal>>},
        d \in {<< >>, DemoTables.deliverables}}

(***************************************************************************)
(* __init__ / load_all_data: every CSV file is read into a DataFrame and   *)
(* written by to_sql into the table of the same content.                   *)
(***************************************************************************)
Frames(tables) ==
    [employees_df |-> tables.employees, roles_df |-> tables.roles,
     projects_df |-> tables.projects, billing_df |-> tables.billing,
     resume_df |-> tables.resume_data, deliverables_df |-> tables.deliverables]

NoArgs ==
    [skills |-> None, role |-> None, location |-> None, title |-> None,
     client |-> None, technology |-> None, min_amount |-> None,
     max_amount |-> None, industry |-> None, employee_id |-> None,
     billing_code |-> None, year |-> None, topic_area |-> None,
     client_experience |-> None, industry_experience |-> None,
     min_years_exp |-> None]

(***************************************************************************)
(* The source files and pd.read_csv.  A file is there or not; its first    *)
(* line is the header (a file of zero bytes has none), the lines after it  *)
(* are records, blank lines, or lines with more fields than the header.    *)
(***************************************************************************)
\* the tables in the order in which load_all_data loads them
TableOrder ==
    <<"employees", "roles", "projects", "billing", "resume_data", "deliverables">>
TableNames == {TableOrder[i] : i \in DOMAIN TableOrder}

\* the columns of each entity (those the model keeps)
EntityColumns ==
    [employees |-> {"Employee_ID", "Name", "Role_ID", "Job_Title", "Location", "Skills"},
     roles |-> {"Role_ID", "Standard_Role"},
     projects |-> {"Billing_Code", "Project_Name", "Client", "Industry",
                   "Technologies", "Dollar_Amount"},
     billing |-> {"Billing_Code", "Employee_ID", "Year", "Hours_Billed",
                  "Role_in_Project"},
     resume_data |-> {"Employee_ID", "Experience"},
     deliverables |-> {"Billing_Code", "Deliverable", "Topic_Area", "Technologies",
                       "Client"}]

RecordLine(row) == [kind |-> "record", row |-> V(row)]
BlankLine == [kind |-> "blank", row |-> Null]
\* a line with more fields than the header has columns
LongLine == [kind |-> "long", row |-> Null]

CsvFile(header, body) == [exists |-> TRUE, header |-> V(header), body |-> body]
MissingFile == [exists |-> FALSE, header |-> Null, body |-> << >>]
\* a file of zero bytes
EmptyFile == [exists |-> TRUE, header |-> Null, body |-> << >>]

\* the file that holds the rows of the table, one line each
FileOf(name, table) ==
    CsvFile(EntityColumns[name], [i \in DOMAIN table |-> RecordLine(table[i])])

\* the same rows with an empty line before each and one at the end
WithBlankLines(name, table) ==
    CsvFile(EntityColumns[name],
            Concat([i \in DOMAIN table |-> <<BlankLine, RecordLine(table[i])>>])
              \o <<BlankLine>>)

\* the same rows followed by a line with too many fields
WithLongLine(name, table) ==
    CsvFile(EntityColumns[name],
            [i \in DOMAIN table |-> RecordLine(table[i])] \o <<LongLine>>)

\* the employees file without its Skills column
WithoutSkills(table) ==
    CsvFile(EntityColumns.employees \ {"Skills"},
            [i \in DOMAIN table |-> RecordLine([table[i] EXCEPT !.Skills = Null])])

\* read_csv with skip_blank_lines=False: an empty line becomes a row of NaN
read_csv_KeepingBlankLines(file) ==
    IF ~file.exists \/ file.header = Null
          \/ \E i \in DOMAIN file.body : file.body[i].kind = "long"
    THEN [raised |-> TRUE, columns |-> {}, rows |-> << >>]
    ELSE [raised |-> FALSE,
          columns |-> Val(file.header),
          rows |-> [i \in DOMAIN file.body |->
                      IF file.body[i].kind = "record" THEN Val(file.body[i].row)
                      ELSE [c \in Val(file.header) |-> Null]]]

\* pd.read_csv(file): the frame of the file's records, empty lines left out
\* (skip_blank_lines=True is the default), or an exception
\*   FileNotFoundError  the file is not there
\*   EmptyDataError     the file has no header line
\*   ParserError        a line has more fields than the header
\* The columns are those of the header, whatever they are.
read_csv(file) ==
    IF ~file.exists \/ file.header = Null
          \/ \E i \in DOMAIN file.body : file.body[i].kind = "long"
    THEN [raised |-> TRUE, columns |-> {}, rows |-> << >>]
    ELSE LET records == SelectSeq(file.body, LAMBDA line : line.kind = "record")
         IN  [raised |-> FALSE,
              columns |-> Val(file.header),
              rows |-> [i \in DOMAIN records |-> Val(records[i].row)]]

(***************************************************************************)
(* __init__ and load_all_data.  The six files are read in TableOrder, each *)
(* into its DataFrame and from there, by to_sql, into its SQL table.  An   *)
(* exception of read_csv is not caught: it ends load_all_data and __init__ *)
(* at that file, and the caller gets the exception instead of an instance. *)
(***************************************************************************)
\* load_all_data with every read in a try/except that leaves the table
\* out: it gets through all six files
FilesLoaded_SkippingFailures(fs) == Len(TableOrder)

\* the number of files load_all_data gets through: the files before the
\* first one that read_csv raises on
FilesLoaded(fs) ==
    IF \E i \in DOMAIN TableOrder : read_csv(fs[TableOrder[i]]).raised
    THEN (CHOOSE i \in DOMAIN TableOrder :
             /\ read_csv(fs[TableOrder[i]]).raised
             /\ \A j \in 1..(i - 1) : ~read_csv(fs[TableOrder[j]]).raised) - 1
    ELSE Len(TableOrder)

\* the instance as load_all_data leaves it
\*   phase    "unborn"  no constructor call yet
\*            "failed"  the constructor raised: no caller holds the instance
\*            "loaded"  the constructor returned the instance
\*            "closed"  close() has been called on it
\*   tables   the tables created, in TableOrder
\*   columns  the columns of each table
Unborn == [phase |-> "unborn", tables |-> << >>, columns |-> [t \in TableNames |-> {}]]

TableIndex(name) == CHOOSE i \in DOMAIN TableOrder : TableOrder[i] = name

\* the content of the SQL tables (and of the DataFrames) after
\* load_all_data on the files fs
TablesFrom(fs) ==
    [t \in TableNames |->
        IF TableIndex(t) <= FilesLoaded(fs) /\ ~read_csv(fs[t]).raised
        THEN read_csv(fs[t]).rows ELSE << >>]

WorkforceDatabase(fs) ==
    [phase |-> IF FilesLoaded(fs) = Len(TableOrder) THEN "loaded" ELSE "failed",
     tables |-> SelectSeq(SubSeq(TableOrder, 1, FilesLoaded(fs)),
                          LAMBDA t : ~read_csv(fs[t]).raised),
     columns |-> [t \in TableNames |->
                    IF TableIndex(t) <= FilesLoaded(fs)
                    THEN read_csv(fs[t]).columns ELSE {}]]

(***************************************************************************)
(* The dashboard (app.py).  Streamlit runs the script from top to bottom   *)
(* when the session opens and again after every interaction of the user.   *)
(* st.session_state and the values of the widgets last from run to run;    *)
(* local variables do not, and a button is True only in the run that its   *)
(* click has caused.                                                       *)
(***************************************************************************)
AnyChoice == <<"A","n","y">>
Python == <<"P","y","t","h","o","n">>
CV == <<"C","V">>
OpenCV == <<"O","p","e","n","C","V">>
Texas == <<"T","e","x","a","s">>
Federal == <<"F","e","d","e","r","a","l">>
SeniorEngineer == <<"S","e","n","i","o","r"," ","E","n","g","i","n","e","e","r">>
LawEnforcement == <<"L","a","w"," ","E","n","f","o","r","c","e","m","e","n","t">>
DataScience == <<"D","a","t","a"," ","S","c","i","e","n","c","e">>
DivisionDirector == <<"D","i","v","i","s","i","o","n"," ","D","i","r","e","c","t","o","r">>

\* the values of the search widgets of the Complex Search page before the
\* user touches them
NoCriteria ==
    [search_skills |-> << >>, search_role |-> AnyChoice, search_location |-> << >>,
     search_client |-> AnyChoice, search_industry |-> AnyChoice, search_years |-> 0]

\* the dashboard before its first run
\*   db                'db' in st.session_state
\*   show_email_modal  st.session_state.show_email_modal, Null while not set
\*   page              the page chosen in the sidebar
\*   uploaded          the file_uploader holds a file
\*   criteria          the values of the search widgets
\*   runs              the interactions so far, the opening included
\*   loads             the calls of init_database so far
\*   click             the button whose click caused the last run
\*   shown             what the last run put on the page
\*   candidates        the rows of the staffing matrix it showed
NoSession ==
    [db |-> FALSE, show_email_modal |-> Null, page |-> "AI Staffing Matrix",
     uploaded |-> FALSE, criteria |-> NoCriteria, runs |-> 0, loads |-> 0,
     click |-> "none", shown |-> {}, candidates |-> << >>]

\* the state after a constructor call that has loaded files holding the
\* rows of `tables`
load_all_data(tables) ==
    /\ conn = tables
    /\ dfs = Frames(tables)
    /\ op = "idle"
    /\ args = NoArgs
    /\ result = << >>
    /\ raised = FALSE
    /\ files = [t \in TableNames |-> FileOf(t, tables[t])]
    /\ store = WorkforceDatabase(files)
    /\ session = NoSession

(***************************************************************************)
(* The values the presentation layer and the demo script pass.             *)
(***************************************************************************)
SkillsArgs ==
    { None, V(<< >>),
      V(<< <<"G","O">>, <<"z">> >>),
      V(<< <<"o","n">> >>),
      V(<< <<"y",";">> >>) }
RoleArgs == {None, V(<<"e","n","g">>)}
LocationArgs == {None, V(<< >>), V(<<"t","x">>), V(<<"T","_">>)}
TitleArgs == {None, V(<<"s","r">>)}
ClientArgs == {None, V(<<"D","_","T">>)}
IndustryArgs == {None, V(<<"l","a","w">>)}
TechnologyArgs == {None, V(<<"g","o">>), V(<<"o","n">>)}
AmountArgs == {None, V(0), V(250000)}
EmployeeIdArgs == {None, V(0), V(1), V(2), V(7)}
BillingCodeArgs == {None, V(<< >>), V(PC1), V(PC9)}
YearArgs == {None, V(0), V(2023), V(2024)}
TopicAreaArgs == {None, V(<<"m","l">>)}
MinYearsArgs == {None, V(0), V(5), V(11)}

(***************************************************************************)
(* One action per query operation: the call, with the table it returns.    *)
(* The callers are single-threaded and synchronous: a call starts when the *)
(* caller has finished with the result of the previous one.                *)
(***************************************************************************)
\* the operations that go through pd.read_sql_query(query, self.conn)
SqlOperations ==
    {"get_employee_directory", "get_projects_dashboard", "get_billing_by_employee",
     "get_billing_by_project", "get_billing_by_year", "get_resume_matrix",
     "get_deliverables_tracker", "get_analytics_by_industry",
     "get_analytics_by_role", "complex_search", "get_employee_project_history",
     "page_employee_directory", "page_resume_matrix", "page_staffing_matrix"}

\* the operations that name the Skills column of employees
NeedsSkills ==
    {"get_employee_directory", "get_resume_matrix", "complex_search",
     "get_analytics_by_skill"}

\* what the call yields on this instance: sqlite3 raises on a closed
\* connection, SQLite and pandas raise on a column that is not there
OutcomeOn(db, name, r) ==
    IF name \in SqlOperations /\ db.phase = "closed" THEN Raises
    ELSE IF name \in NeedsSkills /\ "Skills" \notin db.columns.employees THEN Raises
    ELSE r

Outcome(name, r) == OutcomeOn(store, name, r)

\* a caller can call only on an instance the constructor returned
Call(name, a, r) ==
    /\ op = "idle"
    /\ store.phase \in {"loaded", "closed"}
    /\ op' = name
    /\ args' = a
    /\ result' = Outcome(name, r).rows
    /\ raised' = Outcome(name, r).raised
    /\ UNCHANGED <<files, store, session>>

GetEmployeeDirectory ==
    \E skills \in SkillsArgs, role \in RoleArgs, location \in LocationArgs,
       title \in TitleArgs :
        /\ Call("get_employee_directory",
                [NoArgs EXCEPT !.skills = skills, !.role = role,
                               !.location = location, !.title = title],
                get_employee_directory(conn, skills, role, location, title))
        /\ UNCHANGED <<conn, dfs>>

GetProjectsDashboard ==
    \E client \in ClientArgs, technology \in TechnologyArgs,
       min_amount \in AmountArgs, max_amount \in AmountArgs,
       industry \in IndustryArgs :
        /\ Call("get_projects_dashboard",
                [NoArgs EXCEPT !.client = client, !.technology = technology,
                               !.min_amount = min_amount,
                               !.max_amount = max_amount, !.industry = industry],
                get_projects_dashboard(conn, client, technology, min_amount,
                                       max_amount, industry))
        /\ UNCHANGED <<conn, dfs>>

GetBillingByEmployee ==
    \E employee_id \in EmployeeIdArgs :
        /\ Call("get_billing_by_employee",
                [NoArgs EXCEPT !.employee_id = employee_id],
                get_billing_by_employee(conn, employee_id))
        /\ UNCHANGED <<conn, dfs>>

GetBillingByProject ==
    \E billing_code \in BillingCodeArgs :
        /\ Call("get_billing_by_project",
                [NoArgs EXCEPT !.billing_code = billing_code],
                get_billing_by_project(conn, billing_code))
        /\ UNCHANGED <<conn, dfs>>

GetBillingByYear ==
    \E year \in YearArgs :
        /\ Call("get_billing_by_year", [NoArgs EXCEPT !.year = year],
                get_billing_by_year(conn, year))
        /\ UNCHANGED <<conn, dfs>>

GetResumeMatrix ==
    \E employee_id \in EmployeeIdArgs :
        /\ Call("get_resume_matrix", [NoArgs EXCEPT !.employee_id = employee_id],
                get_resume_matrix(conn, employee_id))
        /\ UNCHANGED <<conn, dfs>>

GetDeliverablesTracker ==
    \E billing_code \in BillingCodeArgs, topic_area \in TopicAreaArgs,
       client \in ClientArgs, technology \in TechnologyArgs :
        /\ Call("get_deliverables_tracker",
                [NoArgs EXCEPT !.billing_code = billing_code,
                               !.topic_area = topic_area, !.client = client,
                               !.technology = technology],
                get_deliverables_tracker(conn, billing_code, topic_area, client,
                                         technology))
        /\ UNCHANGED <<conn, dfs>>

GetAnalyticsByIndustry ==
    /\ Call("get_analytics_by_industry", NoArgs, get_analytics_by_industry(conn))
    /\ UNCHANGED <<conn, dfs>>

\* the operation as it would be with the rows lacking skills dropped from
\* self.employees_df itself (dropna(inplace=True)) before the loop
GetAnalyticsBySkillInPlace ==
    /\ Call("get_analytics_by_skill", NoArgs,
            get_analytics_by_skill(dfs.employees_df))
    /\ dfs' = [dfs EXCEPT !.employees_df =
                  SelectSeq(dfs.employees_df, LAMBDA row : row.Skills # Null)]
    /\ UNCHANGED conn

GetAnalyticsBySkill ==
    /\ Call("get_analytics_by_skill", NoArgs,
            get_analytics_by_skill(dfs.employees_df))
    /\ UNCHANGED <<conn, dfs>>

GetAnalyticsByRole ==
    /\ Call("get_analytics_by_role", NoArgs, get_analytics_by_role(conn))
    /\ UNCHANGED <<conn, dfs>>

ComplexSearch ==
    \E skills \in SkillsArgs \ {V(<< >>), V(<< <<"y",";">> >>)},
       location \in {None, V(<<"t","x">>)}, role \in RoleArgs,
       client_experience \in ClientArgs, industry_experience \in IndustryArgs,
       min_years_exp \in MinYearsArgs :
        /\ Call("complex_search",
                [NoArgs EXCEPT !.skills = skills, !.location = location,
                               !.role = role,
                               !.client_experience = client_experience,
                               !.industry_experience = industry_experience,
                               !.min_years_exp = min_years_exp],
                complex_search(conn, skills, location, role, client_experience,
                               industry_experience, min_years_exp))
        /\ UNCHANGED <<conn, dfs>>

GetEmployeeProjectHistory ==
    \E employee_id \in EmployeeIdArgs \ {None} :
        /\ Call("get_employee_project_history",
                [NoArgs EXCEPT !.employee_id = employee_id],
                get_employee_project_history(conn, employee_id))
        /\ UNCHANGED <<conn, dfs>>

(***************************************************************************)
(* The three places of the application that show an employee's project     *)
(* history.  Each calls get_employee_project_history and, when it returned *)
(* rows, hands a table to st.dataframe: result is the table shown.         *)
(***************************************************************************)
\* projects[[...]]: the rows reduced to the displayed columns
ShownColumns(row, withIndustry) ==
    IF withIndustry
    THEN [Project_Name |-> row.Project_Name, Client |-> row.Client,
          Industry |-> row.Industry, Year |-> row.Year,
          Hours_Billed |-> row.Hours_Billed, Role_in_Project |-> row.Role_in_Project]
    ELSE [Project_Name |-> row.Project_Name, Client |-> row.Client,
          Year |-> row.Year, Hours_Billed |-> row.Hours_Billed,
          Role_in_Project |-> row.Role_in_Project]

Select(rows, withIndustry) ==
    [i \in DOMAIN rows |-> ShownColumns(rows[i], withIndustry)]

\* DataFrame.head(n)
FirstRows(rows, n) == SubSeq(rows, 1, IF Len(rows) < n THEN Len(rows) ELSE n)

\* the Employee_IDs a page offers: those of the employees table
OfferedEmployees == Column(conn.employees, "Employee_ID") \ {Null}

\* Employee Directory page, detailed view: `if selected_emp:` and then
\* emp_projects[[5 columns]]
DirectoryPageProjectHistory ==
    \E selected_emp \in OfferedEmployees :
        /\ TruthyNum(selected_emp)
        /\ Call("page_employee_directory",
                [NoArgs EXCEPT !.employee_id = selected_emp],
                Returns(Select(get_employee_project_history(conn, selected_emp).rows,
                               FALSE)))
        /\ UNCHANGED <<conn, dfs>>

\* Resume & Skills Matrix page: project_history[[6 columns]].drop_duplicates()
ResumePageProjectHistory ==
    \E emp_id \in OfferedEmployees :
        /\ Call("page_resume_matrix", [NoArgs EXCEPT !.employee_id = emp_id],
                Returns(Dedup(Select(get_employee_project_history(conn, emp_id).rows,
                                     TRUE))))
        /\ UNCHANGED <<conn, dfs>>

\* AI Staffing Matrix page, candidate profile: projects[[6 columns]].head(5)
StaffingPageProjectHistory ==
    \E candidate \in OfferedEmployees :
        /\ Call("page_staffing_matrix", [NoArgs EXCEPT !.employee_id = candidate],
                Returns(FirstRows(Select(get_employee_project_history(conn, candidate).rows,
                                         TRUE), 5)))
        /\ UNCHANGED <<conn, dfs>>

\* the caller shows the returned table (st.dataframe, print) or handles the
\* exception, and drops it
Render ==
    /\ op # "idle"
    /\ op' = "idle"
    /\ args' = NoArgs
    /\ result' = << >>
    /\ raised' = FALSE
    /\ UNCHANGED <<conn, dfs, files, store, session>>

(***************************************************************************)
(* Specifications.                                                         *)
(***************************************************************************)
\* every query operation, on three stores
Init == \E tables \in {DemoTables, RaggedTables, EmptyTables} : load_all_data(tables)

Next ==
    \/ GetEmployeeDirectory
    \/ GetProjectsDashboard
    \/ GetBillingByEmployee
    \/ GetBillingByProject
    \/ GetBillingByYear
    \/ GetResumeMatrix
    \/ GetDeliverablesTracker
    \/ GetAnalyticsByIndustry
    \/ GetAnalyticsBySkill
    \/ GetAnalyticsByRole
    \/ ComplexSearch
    \/ GetEmployeeProjectHistory
    \/ Render

Spec == Init /\ [][Next]_vars

\* the operations over employees and roles, on every store of EmployeeStores
InitEmployees == \E tables \in EmployeeStores : load_all_data(tables)
NextEmployees ==
    \/ GetEmployeeDirectory
    \/ GetAnalyticsBySkill
    \/ GetAnalyticsByRole
    \/ Render
SpecEmployees == InitEmployees /\ [][NextEmployees]_vars

\* the operations that read the skill lists, on every store of SkillStores
InitSkills == \E tables \in SkillStores : load_all_data(tables)
NextSkills == GetAnalyticsBySkill \/ GetEmployeeDirectory \/ Render
SpecSkills == InitSkills /\ [][NextSkills]_vars

\* the search and the per-employee views, on every store of SearchStores
InitSearch == \E tables \in SearchStores : load_all_data(tables)
NextSearch == ComplexSearch \/ GetResumeMatrix \/ Render
SpecSearch == InitSearch /\ [][NextSearch]_vars

\* the operations over projects and deliverables, on every store of ProjectStores
InitProjects == \E tables \in ProjectStores : load_all_data(tables)
NextProjects == GetProjectsDashboard \/ GetDeliverablesTracker \/ Render
SpecProjects == InitProjects /\ [][NextProjects]_vars

\* the three filtered listings, on every store of EmployeeStores and of
\* ProjectStores
InitFilters == \E tables \in EmployeeStores \cup ProjectStores : load_all_data(tables)
NextFilters ==
    \/ GetEmployeeDirectory
    \/ GetProjectsDashboard
    \/ GetDeliverablesTracker
    \/ Render
SpecFilters == InitFilters /\ [][NextFilters]_vars

\* the operations over billing, on every store of BillingStores
InitBilling == \E tables \in BillingStores : load_all_data(tables)
NextBilling ==
    \/ GetBillingByEmployee
    \/ GetBillingByProject
    \/ GetBillingByYear
    \/ GetEmployeeProjectHistory
    \/ GetAnalyticsByIndustry
    \/ Render
SpecBilling == InitBilling /\ [][NextBilling]_vars

\* the pages that show a project history, on every store of BillingStores
NextPages ==
    \/ DirectoryPageProjectHistory
    \/ ResumePageProjectHistory
    \/ StaffingPageProjectHistory
    \/ Render
SpecPages == InitBilling /\ [][NextPages]_vars

(***************************************************************************)
(* close(), and the callers that construct, query and close (demo.py).     *)
(***************************************************************************)
Close ==
    /\ op = "idle"
    /\ store.phase = "loaded"
    /\ store' = [store EXCEPT !.phase = "closed"]
    /\ UNCHANGED <<conn, dfs, op, args, result, raised, files, session>>

NextLifecycle == Next \/ Close
SpecLifecycle == Init /\ [][NextLifecycle]_vars

(***************************************************************************)
(* The pages of the dashboard that act on what the user clicks.            *)
(***************************************************************************)
\* what a run of the script leaves: the session, and the call to the store
\* that the page was built from ("idle" when it made none)
NoCall(w) ==
    [session |-> w, op |-> "idle", args |-> NoArgs, result |-> << >>, raised |-> FALSE]
Called(w, name, a, r) ==
    [session |-> w, op |-> name, args |-> a, result |-> r.rows, raised |-> r.raised]

\* Complex Search: the widgets
SearchWidgets == {"search_widgets", "quick_search_buttons", "search_button"}

\* the local variables search_* after the three `if st.button(...)` of the
\* quick searches
QuickSearch(l, click) ==
    CASE click = "quick_search_1" ->
            [l EXCEPT !.search_skills = <<Python>>, !.search_role = SeniorEngineer,
                      !.search_location = Texas, !.search_industry = LawEnforcement]
      [] click = "quick_search_2" ->
            [l EXCEPT !.search_skills = <<CV, OpenCV>>, !.search_client = Federal]
      [] click = "quick_search_3" ->
            [l EXCEPT !.search_skills = <<DataScience>>, !.search_role = DivisionDirector]
      [] OTHER -> l

\* the arguments of db.complex_search(...) for these local variables
SearchArgs(l) ==
    [NoArgs EXCEPT
        !.skills = IF l.search_skills # << >> THEN V(l.search_skills) ELSE None,
        !.location = IF l.search_location # << >> THEN V(l.search_location) ELSE None,
        !.role = IF l.search_role # AnyChoice THEN V(l.search_role) ELSE None,
        !.client_experience = IF l.search_client # AnyChoice THEN V(l.search_client) ELSE None,
        !.industry_experience =
            IF l.search_industry # AnyChoice THEN V(l.search_industry) ELSE None,
        !.min_years_exp = IF l.search_years > 0 THEN V(l.search_years) ELSE None]

\* the page for the arguments a and the outcome r of db.complex_search(a):
\* the widgets, the quick searches, and under `if st.button("Search")` the
\* call and its results
SearchShown(w, click, a, r) ==
    IF click = "search"
    THEN Called([w EXCEPT !.shown = SearchWidgets \cup
                              (IF r.raised THEN {} ELSE {"search_results"}),
                          !.candidates = << >>],
                "complex_search", a, r)
    ELSE NoCall([w EXCEPT !.shown = SearchWidgets, !.candidates = << >>])

\* the call the Search button makes
SearchCall(a, db, c) ==
    OutcomeOn(db, "complex_search",
              complex_search(c, a.skills, a.location, a.role, a.client_experience,
                             a.industry_experience, a.min_years_exp))

\* the arguments of the run: the widgets' values, overwritten by the quick
\* search clicked in this run
SearchLocals(w, click) == SearchArgs(QuickSearch(w.criteria, click))

\* the page: the options of the skills widget are read from
\* db.employees_df['Skills'] first
ComplexSearchPage(w, click, db, c) ==
    IF "Skills" \notin db.columns.employees
    THEN Called([w EXCEPT !.shown = {}, !.candidates = << >>],
                "employees_df", NoArgs, Raises)
    ELSE SearchShown(w, click, SearchLocals(w, click),
                     SearchCall(SearchLocals(w, click), db, c))

\* AI Staffing Matrix: the fit scores of match_data, by Employee_ID
match_data ==
    (10004 :> 98) @@ (10005 :> 96) @@ (10006 :> 94) @@ (10007 :> 93) @@
    (10008 :> 91) @@ (10001 :> 89) @@ (10002 :> 87) @@ (10003 :> 85)
\* the score of an employee that match_data does not have
DefaultScore == 80
AI_Fit_Score(employee_id) ==
    IF employee_id # Null /\ Val(employee_id) \in DOMAIN match_data
    THEN match_data[Val(employee_id)] ELSE DefaultScore

\* matched_candidates.head(5)
TopCandidates == 5

\* the matrix: head(5) of the matched employees, then the scores, then
\* sort_values('AI_Fit_Score', ascending=False)
matched_candidates(matched) ==
    LET head == FirstRows(matched, TopCandidates)
    IN  OrderBy([i \in DOMAIN head |->
                    [Employee_ID |-> head[i].Employee_ID,
                     AI_Fit_Score |-> V(AI_Fit_Score(head[i].Employee_ID))]],
                <<Desc("AI_Fit_Score", "num")>>)

UploadWidgets == {"file_uploader", "load_sample_button"}

\* db.get_employee_directory(skills=["Python", "CV"], location="Texas")
MatrixArgs == [NoArgs EXCEPT !.skills = V(<<Python, CV>>), !.location = V(Texas)]
MatrixCall(db, c) ==
    OutcomeOn(db, "get_employee_directory",
              get_employee_directory(c, MatrixArgs.skills, None,
                                     MatrixArgs.location, None))

\* the page for the outcome r of that call: Step 1 with the uploader and
\* the sample button, and under `if uploaded_file:` the analysis, the
\* matrix, the Email Candidates button and the email dialog.
\* Send Emails and Cancel, which are inside the dialog, set
\* show_email_modal = False and call st.rerun(): the script runs again at
\* once with no button clicked, and the page is what that run shows.
StaffingMatrixShown(w, click, r) ==
    LET uploaded_file == w.uploaded \/ click = "load_sample"
        closing == /\ click \in {"send_emails", "cancel"}
                   /\ w.uploaded /\ ~r.raised /\ Len(r.rows) > 0
                   /\ w.show_email_modal = V(TRUE)
        modal == IF click = "email_candidates" THEN V(TRUE)
                 ELSE IF closing THEN V(FALSE)
                 ELSE w.show_email_modal
    IN  IF ~uploaded_file
        THEN NoCall([w EXCEPT !.shown = UploadWidgets, !.candidates = << >>])
        ELSE IF r.raised \/ Len(r.rows) = 0
        THEN Called([w EXCEPT !.shown = UploadWidgets, !.candidates = << >>],
                    "get_employee_directory", MatrixArgs, r)
        ELSE Called([w EXCEPT !.show_email_modal = modal,
                              !.candidates = matched_candidates(r.rows),
                              !.shown = UploadWidgets
                                  \cup {"staffing_matrix", "email_candidates_button"}
                                  \cup (IF modal = V(TRUE) THEN {"email_modal"} ELSE {})],
                    "get_employee_directory", MatrixArgs, r)

StaffingMatrixPage(w, click, db, c) == StaffingMatrixShown(w, click, MatrixCall(db, c))

\* the pages followed (the radio of the sidebar starts on the first)
PageNames == {"AI Staffing Matrix", "Complex Search"}

\* what a run leaves in the state
Leaves(db, c, run) ==
    /\ store' = db
    /\ conn' = c
    /\ dfs' = Frames(c)
    /\ session' = run.session
    /\ op' = run.op
    /\ args' = run.args
    /\ result' = run.result
    /\ raised' = run.raised
    /\ UNCHANGED files

\* the run on the instance db with the tables c, for the session v
Script(v, click, db, c) ==
    IF db.phase # "loaded"
    THEN Called([v EXCEPT !.shown = {}, !.candidates = << >>],
                "init_database", NoArgs, Raises)
    ELSE IF v.page = "Complex Search"
    THEN ComplexSearchPage([v EXCEPT !.db = TRUE], click, db, c)
    ELSE StaffingMatrixPage([v EXCEPT !.db = TRUE], click, db, c)

\* one run of the script for the widget values w and the clicked button:
\* `if 'db' not in st.session_state: st.session_state.db = init_database()`,
\* then the page.  An exception ends the run where it is raised.
ScriptRun(w, click) ==
    /\ session.runs < MaxRuns
    /\ Leaves(IF w.db THEN store ELSE WorkforceDatabase(files),
              IF w.db THEN conn ELSE TablesFrom(files),
              Script([w EXCEPT !.runs = @ + 1, !.click = click,
                               !.loads = IF w.db THEN @ ELSE @ + 1],
                     click,
                     IF w.db THEN store ELSE WorkforceDatabase(files),
                     IF w.db THEN conn ELSE TablesFrom(files)))

\* the user opens the dashboard: the first run
OpenDashboard == session.runs = 0 /\ ScriptRun(session, "none")

\* "Rerun" of the Streamlit menu: the script runs again in the same session
RerunScript == session.runs > 0 /\ ScriptRun(session, "none")

\* another page in the sidebar; the widgets of the page left lose their
\* values, st.session_state keeps its own
SelectPage ==
    \E page \in PageNames \ {session.page} :
        /\ session.db
        /\ ScriptRun([session EXCEPT !.page = page, !.uploaded = FALSE,
                                     !.criteria = NoCriteria], "none")

\* the criteria a user enters
CriteriaChoices ==
    {NoCriteria,
     [NoCriteria EXCEPT !.search_skills = << <<"G","o">> >>,
                        !.search_location = <<"T","X">>]}

EnterCriteria ==
    \E criteria \in CriteriaChoices \ {session.criteria} :
        /\ "search_widgets" \in session.shown
        /\ ScriptRun([session EXCEPT !.criteria = criteria], "none")

ClickQuickSearch ==
    \E button \in {"quick_search_1", "quick_search_2", "quick_search_3"} :
        /\ "quick_search_buttons" \in session.shown
        /\ ScriptRun(session, button)

ClickSearch ==
    /\ "search_button" \in session.shown
    /\ ScriptRun(session, "search")

UploadFile ==
    /\ "file_uploader" \in session.shown
    /\ ~session.uploaded
    /\ ScriptRun([session EXCEPT !.uploaded = TRUE], "none")

ClickLoadSample ==
    /\ "load_sample_button" \in session.shown
    /\ ScriptRun(session, "load_sample")

ClickEmailCandidates ==
    /\ "email_candidates_button" \in session.shown
    /\ ScriptRun(session, "email_candidates")

ClickSendEmails ==
    /\ "email_modal" \in session.shown
    /\ ScriptRun(session, "send_emails")

ClickCancel ==
    /\ "email_modal" \in session.shown
    /\ ScriptRun(session, "cancel")

\* the sets of six files the dashboard is started on: those of DemoTables,
\* each file as it should be or damaged
Candidate(id, name) ==
    Employee(id, name, 1, SeniorEngineer, V(Texas), V(Python \o <<";">> \o CV))

\* six employees that match the criteria of the staffing matrix
StaffingTables ==
    [EmptyTables EXCEPT
        !.employees = <<Candidate(10001, <<"C","1">>), Candidate(10002, <<"C","2">>),
                        Candidate(10003, <<"C","3">>), Candidate(10009, <<"C","9">>),
                        Candidate(10004, <<"C","4">>), Candidate(10005, <<"C","5">>)>>,
        !.roles = <<Engineer>>]

\* three employees that match them
ShortlistTables ==
    [EmptyTables EXCEPT
        !.employees = <<Candidate(10003, <<"C","3">>), Candidate(10001, <<"C","1">>),
                        Candidate(10004, <<"C","4">>), Bob>>,
        !.roles = <<Engineer>>]

FilesOf(tables) == [t \in TableNames |-> FileOf(t, tables[t])]

DamagedFiles ==
    {[employees |-> e, roles |-> r, projects |-> p, billing |-> b,
      resume_data |-> rd, deliverables |-> d] :
        e \in {FileOf("employees", DemoTables.employees),
               WithBlankLines("employees", DemoTables.employees),
               WithoutSkills(DemoTables.employees),
               MissingFile},
        r \in {FileOf("roles", DemoTables.roles), EmptyFile},
        p \in {FileOf("projects", DemoTables.projects),
               WithLongLine("projects", DemoTables.projects)},
        b \in {FileOf("billing", DemoTables.billing),
               WithBlankLines("billing", DemoTables.billing),
               MissingFile},
        rd \in {FileOf("resume_data", DemoTables.resume_data), MissingFile},
        d \in {FileOf("deliverables", DemoTables.deliverables), MissingFile}}

InitDashboard ==
    /\ files \in DamagedFiles \cup {FilesOf(StaffingTables), FilesOf(ShortlistTables)}
    /\ store = Unborn
    /\ conn = EmptyTables
    /\ dfs = Frames(EmptyTables)
    /\ op = "idle"
    /\ args = NoArgs
    /\ result = << >>
    /\ raised = FALSE
    /\ session = NoSession

NextDashboard ==
    \/ OpenDashboard
    \/ RerunScript
    \/ SelectPage
    \/ EnterCriteria
    \/ ClickQuickSearch
    \/ ClickSearch
    \/ UploadFile
    \/ ClickLoadSample
    \/ ClickEmailCandidates
    \/ ClickSendEmails
    \/ ClickCancel
SpecDashboard == InitDashboard /\ [][NextDashboard]_vars

(***************************************************************************)
(* Properties.                                                             *)
(***************************************************************************)
\* C1: a supplied (non-None) filter always restricts the result: every row
\* get_projects_dashboard returns has Dollar_Amount >= min_amount and
\* Dollar_Amount <= max_amount for every supplied bound, the value 0
\* included, and every group get_billing_by_year(year) returns is of that
\* year, for every supplied year.
C1_SuppliedFilterRestricts ==
    /\ op = "get_projects_dashboard" =>
         \A i \in DOMAIN result :
            /\ args.min_amount # None =>
                 /\ result[i].Dollar_Amount # Null
                 /\ Val(result[i].Dollar_Amount) >= Val(args.min_amount)
            /\ args.max_amount # None =>
                 /\ result[i].Dollar_Amount # Null
                 /\ Val(result[i].Dollar_Amount) <= Val(args.max_amount)
    /\ op = "get_billing_by_year" =>
         \A i \in DOMAIN result : args.year # None => result[i].Year = args.year

\* the values that occur in column f of one of the named tables
KeysOf(tableNames, f) == UNION {Column(conn[n], f) : n \in tableNames}

\* C2: a key filter whose value is the key of no loaded row (0 and the empty
\* string included) yields an empty table and no exception, in
\* get_billing_by_employee, get_resume_matrix, get_employee_project_history,
\* get_billing_by_project and get_deliverables_tracker.
C2_UnknownKeyReturnsEmpty ==
    /\ ( /\ op \in {"get_billing_by_employee", "get_resume_matrix",
                    "get_employee_project_history"}
         /\ args.employee_id # None
         /\ args.employee_id \notin
                KeysOf({"employees", "billing", "resume_data"}, "Employee_ID") )
       => (~raised /\ result = << >>)
    /\ ( /\ op \in {"get_billing_by_project", "get_deliverables_tracker"}
         /\ args.billing_code # None
         /\ args.billing_code \notin
                KeysOf({"projects", "billing", "deliverables"}, "Billing_Code") )
       => (~raised /\ result = << >>)

\* C3: on every loaded store, with every combination of filter values, a
\* query operation returns a table and never raises.
C3_QueriesNeverRaise == ~raised

\* the lower-cased value occurs as a literal contiguous substring of the
\* lower-cased field; a NULL field has no text to search
LiteralMatch(value, field) ==
    field # Null /\ Contains(Lower(Val(value)), Lower(Val(field)))

\* a string filter the caller supplied and that is not empty
Given(value) == value # None /\ value # V(<< >>)

\* C4: a row passes a string filter iff the lower-cased filter value is a
\* literal contiguous substring of the lower-cased field value, also for
\* filter strings containing '%' or '_'.  Stated for the non-empty filters
\* of get_employee_directory, get_projects_dashboard and
\* get_deliverables_tracker (the in-process filter left out), and as a
\* condition on every row complex_search returns.
C4_StringFilterIsLiteralSubstring ==
    /\ (op = "get_employee_directory" /\ args.skills = None) =>
         result = SelectSeq(get_employee_directory(conn, None, None, None, None).rows,
                    LAMBDA row :
                      /\ Given(args.role) => LiteralMatch(args.role, row.Standard_Role)
                      /\ Given(args.location) => LiteralMatch(args.location, row.Location)
                      /\ Given(args.title) => LiteralMatch(args.title, row.Job_Title))
    /\ (op = "get_projects_dashboard" /\ args.technology = None
            /\ args.min_amount = None /\ args.max_amount = None) =>
         result = SelectSeq(get_projects_dashboard(conn, None, None, None, None, None).rows,
                    LAMBDA row :
                      /\ Given(args.client) => LiteralMatch(args.client, row.Client)
                      /\ Given(args.industry) => LiteralMatch(args.industry, row.Industry))
    /\ (op = "get_deliverables_tracker" /\ args.technology = None
            /\ args.billing_code = None) =>
         result = SelectSeq(get_deliverables_tracker(conn, None, None, None, None).rows,
                    LAMBDA row :
                      /\ Given(args.topic_area) =>
                            LiteralMatch(args.topic_area, row.Topic_Area)
                      /\ Given(args.client) => LiteralMatch(args.client, row.Client))
    /\ op = "complex_search" =>
         \A i \in DOMAIN result :
            /\ Given(args.role) => LiteralMatch(args.role, result[i].Standard_Role)
            /\ Given(args.location) => LiteralMatch(args.location, result[i].Location)

\* the values of a multi-valued field: split on ';', trimmed, lower-cased;
\* a NULL field has none
FieldValues(field) ==
    IF field = Null THEN {}
    ELSE LET parts == Split(Val(field))
         IN  {Lower(Strip(parts[i])) : i \in DOMAIN parts}

\* at least one requested value is a substring of at least one field value
AnyOfAny(requested, field) ==
    \E k \in DOMAIN requested, v \in FieldValues(field) :
        Contains(Lower(requested[k]), v)

\* C5: the skills filter (get_employee_directory, complex_search) and the
\* technology filter (get_projects_dashboard, get_deliverables_tracker) keep
\* a row iff one requested value, lower-cased, is a substring of one of the
\* row's values (split on ';', trimmed, lower-cased); a row with a NULL
\* field is never kept.  Stated for non-empty requests.
C5_MultiValuedFilterIsAnyOfAny ==
    /\ (op \in {"get_employee_directory", "complex_search"} /\ Given(args.skills)) =>
         LET a == args
             unfiltered ==
                 IF op = "get_employee_directory"
                 THEN get_employee_directory(conn, None, a.role, a.location, a.title).rows
                 ELSE complex_search(conn, None, a.location, a.role,
                                     a.client_experience, a.industry_experience,
                                     a.min_years_exp).rows
         IN  result = SelectSeq(unfiltered,
                        LAMBDA row : AnyOfAny(Val(a.skills), row.Skills))
    /\ (op \in {"get_projects_dashboard", "get_deliverables_tracker"}
            /\ Given(args.technology)) =>
         LET a == args
             unfiltered ==
                 IF op = "get_projects_dashboard"
                 THEN get_projects_dashboard(conn, a.client, None, a.min_amount,
                                             a.max_amount, a.industry).rows
                 ELSE get_deliverables_tracker(conn, a.billing_code, a.topic_area,
                                               a.client, None).rows
         IN  result = SelectSeq(unfiltered,
                        LAMBDA row : AnyOfAny(<<Val(a.technology)>>, row.Technologies))

\* C6: no query operation mutates the store: across every step the six SQL
\* tables and the six DataFrames stay what load_all_data made them.
C6_QueriesLeaveStoreUnchanged == [][conn' = conn /\ dfs' = dfs]_vars

\* a query has returned rows from a store that holds NULL cells
C6_Witness ==
    /\ op \notin {"idle"}
    /\ result # << >>
    /\ conn = RaggedTables
    /\ dfs = Frames(RaggedTables)

\* C8: get_employee_directory without filters returns exactly one row per
\* Employee row whatever the roles table holds (no matching role, several
\* matching roles).
C8_DirectoryOneRowPerEmployee ==
    (op = "get_employee_directory" /\ args = NoArgs) =>
        /\ Len(result) = Len(conn.employees)
        /\ \A i \in DOMAIN result :
              result[i].Employee_ID = conn.employees[i].Employee_ID

\* C9: for every employee_id, get_billing_by_employee(employee_id) is
\* get_billing_by_employee(None) restricted to the rows of that Employee_ID,
\* in the same relative order.
C9_BillingByEmployeeIsRestriction ==
    (op = "get_billing_by_employee" /\ args.employee_id # None) =>
        result = SelectSeq(get_billing_by_employee(conn, None).rows,
                           LAMBDA row : row.Employee_ID = args.employee_id)

\* a >= b for two numeric cells, NULL being below every number
CellGeq(a, b) == b = Null \/ (a # Null /\ Val(a) >= Val(b))

\* C10: the rows of get_billing_by_employee and get_employee_project_history
\* are in descending Year and, within a Year, descending Hours_Billed; the
\* rows of get_billing_by_project are in descending Hours_Billed.
C10_ResultsSorted ==
    /\ op \in {"get_billing_by_employee", "get_employee_project_history"} =>
         \A i \in 1..(Len(result) - 1) :
            /\ CellGeq(result[i].Year, result[i + 1].Year)
            /\ result[i].Year = result[i + 1].Year =>
                  CellGeq(result[i].Hours_Billed, result[i + 1].Hours_Billed)
    /\ op = "get_billing_by_project" =>
         \A i \in 1..(Len(result) - 1) :
            CellGeq(result[i].Hours_Billed, result[i + 1].Hours_Billed)

\* get_billing_by_employee has returned three rows of two years, two of one
\* year with different hours, from a billing table stored in another order
C10_Witness ==
    /\ op = "get_billing_by_employee"
    /\ Len(result) = 3
    /\ result[1].Year = result[2].Year
    /\ result[1].Hours_Billed # result[2].Hours_Billed
    /\ result[2].Year # result[3].Year
    /\ CellLess(conn.billing[1].Year, conn.billing[2].Year)
    /\ CellLess(conn.billing[2].Hours_Billed, conn.billing[3].Hours_Billed)

\* the sum of column f over the rows of t with an index in I
RECURSIVE SumOver(_, _, _)
SumOver(t, f, I) ==
    IF I = {} THEN 0
    ELSE LET i == CHOOSE i \in I : TRUE
         IN  Val(t[i][f]) + SumOver(t, f, I \ {i})

\* the billing rows a call with this year is to select
SelectedBilling(year) ==
    SelectSeq(conn.billing, LAMBDA b : year # None => b.Year = year)

\* the (Year, Client, Industry, Project_Name) of a billing row: the project
\* columns are those of the project carrying its Billing_Code, if any
YearGroupOf(b) ==
    LET p == Matches(b, "Billing_Code", conn.projects, "Billing_Code", NullProject)[1]
    IN  <<b.Year, p.Client, p.Industry, p.Project_Name>>

\* C11: get_billing_by_year returns exactly one row per distinct (Year,
\* Client, Industry, Project_Name) of Billing joined to Project, restricted
\* to the requested year when one is given; Total_Hours is the sum of the
\* group's Hours_Billed and Employee_Count the number of its distinct
\* Employee_IDs, so the Total_Hours add up to the hours of the selected
\* billing rows; the rows are in descending Year, then descending
\* Total_Hours.
C11_BillingByYearGroups ==
    op = "get_billing_by_year" =>
        LET sel == SelectedBilling(args.year)
            members(k) == {i \in DOMAIN sel : YearGroupOf(sel[i]) = k}
            keys == {YearGroupOf(sel[i]) : i \in DOMAIN sel}
            keyOfRow(row) == <<row.Year, row.Client, row.Industry, row.Project_Name>>
        IN  /\ Len(result) = Cardinality(keys)
            /\ \A k \in keys : \E i \in DOMAIN result :
                  /\ keyOfRow(result[i]) = k
                  /\ result[i].Total_Hours = V(SumOver(sel, "Hours_Billed", members(k)))
                  /\ result[i].Employee_Count =
                        V(Cardinality({sel[m].Employee_ID : m \in members(k)}))
            /\ SumOver(result, "Total_Hours", DOMAIN result)
                  = SumOver(sel, "Hours_Billed", DOMAIN sel)
            /\ \A i \in 1..(Len(result) - 1) :
                  /\ CellGeq(result[i].Year, result[i + 1].Year)
                  /\ result[i].Year = result[i + 1].Year =>
                        CellGeq(result[i].Total_Hours, result[i + 1].Total_Hours)

\* the project a billing row refers to, all-NULL when there is none
ProjectOf(b) ==
    Matches(b, "Billing_Code", conn.projects, "Billing_Code", NullProject)[1]

\* the billing table with, next to every row, the Industry, Client and
\* Dollar_Amount of its project
BilledProjects ==
    [m \in DOMAIN conn.billing |->
        [Billing_Code |-> conn.billing[m].Billing_Code,
         Hours_Billed |-> conn.billing[m].Hours_Billed,
         Industry |-> ProjectOf(conn.billing[m]).Industry,
         Client |-> ProjectOf(conn.billing[m]).Client,
         Dollar_Amount |-> ProjectOf(conn.billing[m]).Dollar_Amount]]

\* C12: in get_analytics_by_industry the Total_Revenue of an (Industry,
\* Client) group is the sum of the project's Dollar_Amount over every
\* billing row of the group, a project counting once per billing row (NULL
\* for the group of the billing rows without a project); Project_Count is
\* the number of distinct projects and Total_Hours the sum of the hours.
C12_RevenueCountsProjectPerBillingRow ==
    op = "get_analytics_by_industry" =>
        LET bp == BilledProjects
            members(row) == {m \in DOMAIN bp : /\ bp[m].Industry = row.Industry
                                               /\ bp[m].Client = row.Client}
            paid(row) == {m \in members(row) : bp[m].Dollar_Amount # Null}
        IN  /\ Len(result) = Cardinality({<<bp[m].Industry, bp[m].Client>> : m \in DOMAIN bp})
            /\ \A i \in DOMAIN result :
                  /\ members(result[i]) # {}
                  /\ result[i].Total_Revenue =
                        IF paid(result[i]) = {} THEN Null
                        ELSE V(SumOver(bp, "Dollar_Amount", paid(result[i])))
                  /\ result[i].Project_Count =
                        V(Cardinality({bp[m].Billing_Code : m \in paid(result[i])}))
                  /\ result[i].Total_Hours =
                        V(SumOver(bp, "Hours_Billed", members(result[i])))

\* one project of Dollar_Amount 500000 with exactly two billing rows: its
\* group has Total_Revenue 1000000, Project_Count 1 and the hours of both
C12_Witness ==
    /\ op = "get_analytics_by_industry"
    /\ Cardinality({m \in DOMAIN conn.billing : conn.billing[m].Billing_Code = V(PC1)}) = 2
    /\ FacialRec.Dollar_Amount = V(500000)
    /\ \E i \in DOMAIN conn.projects : conn.projects[i] = FacialRec
    /\ \E i \in DOMAIN result :
          /\ result[i].Client = FacialRec.Client
          /\ result[i].Total_Revenue = V(1000000)
          /\ result[i].Project_Count = V(1)
          /\ result[i].Total_Hours = V(180)

\* the indexes of the employees that have a Skills field
Skilled == {i \in DOMAIN dfs.employees_df : dfs.employees_df[i].Skills # Null}

\* the skill list of employee i: the entries of Skills between the ';'
SkillList(i) == Split(Val(dfs.employees_df[i].Skills))

\* the employees whose skill list has the entry that trims to skill
Having(skill) ==
    {i \in Skilled : \E k \in DOMAIN SkillList(i) : Strip(SkillList(i)[k]) = skill}

SortedTexts(S) ==
    CHOOSE q \in [1..Cardinality(S) -> S] :
        \A i, j \in DOMAIN q : i < j => TextLess(q[i], q[j])

\* C14: when get_analytics_by_skill returns, every row has a non-empty
\* trimmed Skill, an Employee_Count equal to the number of employees whose
\* skill list contains that skill (an employee counting once even when the
\* list repeats the skill), and as Locations the sorted, duplicate-free list
\* of those employees' locations.
C14_SkillRowCountsEmployees ==
    (op = "get_analytics_by_skill" /\ ~raised) =>
        \A r \in DOMAIN result :
            LET skill == Val(result[r].Skill)
                locations == {Val(dfs.employees_df[i].Location) : i \in Having(skill)}
            IN  /\ skill # << >>
                /\ Strip(skill) = skill
                /\ result[r].Employee_Count = V(Cardinality(Having(skill)))
                /\ result[r].Locations =
                      V(Join(SortedTexts(locations), <<",", " ">>))

\* the value of a decimal digit
DigitValue(ch) == (CHOOSE i \in DOMAIN Digits : Digits[i] = ch) - 1

\* the sum of the integers n of the "<n>y" of the text s, read from index i
\* on, run being the value of the digits read since the last non-digit
\* (-1 when there is none)
RECURSIVE YearsFrom(_, _, _)
YearsFrom(s, i, run) ==
    IF i > Len(s) THEN 0
    ELSE IF IsDigit(s[i])
         THEN YearsFrom(s, i + 1, (IF run < 0 THEN 0 ELSE 10 * run) + DigitValue(s[i]))
         ELSE (IF s[i] = "y" /\ run >= 0 THEN run ELSE 0) + YearsFrom(s, i + 1, -1)

\* the years of experience an Experience cell states, 0 when it is NULL
YearsOf(experience) ==
    IF experience = Null THEN 0 ELSE YearsFrom(Val(experience), 1, -1)

\* C15: with min_years_exp = m supplied, complex_search keeps a row iff the
\* integers n of the "<n>y" of its Experience add up to at least m, a NULL
\* Experience counting as 0: the result is the result of the same call
\* without min_years_exp, restricted to those rows.
C15_MinYearsKeepsSumAtLeast ==
    (op = "complex_search" /\ args.min_years_exp # None) =>
        result = SelectSeq(complex_search(conn, args.skills, args.location, args.role,
                                          args.client_experience,
                                          args.industry_experience, None).rows,
                           LAMBDA row : YearsOf(row.Experience) >= Val(args.min_years_exp))

\* the employee with "7y Py, 3y Ld" (10 years) is in the result for m = 5
C15_Witness ==
    /\ op = "complex_search"
    /\ args = [NoArgs EXCEPT !.min_years_exp = V(5)]
    /\ \E i \in DOMAIN result :
          /\ result[i].Employee_ID = V(1)
          /\ result[i].Experience = V(<<"7","y"," ","P","y",","," ","3","y"," ","L","d">>)

\* the number of places at which the text sub occurs in the text s
Occurrences(sub, s) ==
    Cardinality({i \in 1..(Len(s) - Len(sub) + 1) : SubSeq(s, i, i + Len(sub) - 1) = sub})

\* every value of column f of the projects table occurs at most once in
\* the concatenation
ListsEachOnce(concatenation, f) ==
    concatenation # Null =>
        \A v \in Column(conn.projects, f) \ {Null} :
            Occurrences(Val(v), Val(concatenation)) <= 1

\* the hours of the billing rows of the employee, each row once; NULL when
\* the employee has none
HoursOfEmployee(employee_id) ==
    LET own == {m \in DOMAIN conn.billing : conn.billing[m].Employee_ID = employee_id}
    IN  IF own = {} THEN Null ELSE V(SumOver(conn.billing, "Hours_Billed", own))

\* no two rows of the result have the same Employee_ID
C16_AtMostOneRowPerEmployee ==
    \A i, j \in DOMAIN result : result[i].Employee_ID = result[j].Employee_ID => i = j

\* without filters every employee has exactly one row
C16_EveryEmployeeOnce ==
    args = NoArgs =>
        \A e \in DOMAIN conn.employees :
            Cardinality({i \in DOMAIN result :
                result[i].Employee_ID = conn.employees[e].Employee_ID}) = 1

\* every client and every industry is listed at most once
C16_ListsDistinct ==
    \A i \in DOMAIN result :
        /\ ListsEachOnce(result[i].Clients_Worked, "Client")
        /\ ListsEachOnce(result[i].Industries_Worked, "Industry")

\* Total_Hours_Billed is the sum of the employee's billing rows, each once
C16_TotalHours ==
    \A i \in DOMAIN result :
        result[i].Total_Hours_Billed = HoursOfEmployee(result[i].Employee_ID)

\* C16: complex_search returns at most one row per Employee_ID for every
\* combination of filters, and without filters exactly one row for every
\* employee (those without billing rows included); Clients_Worked and
\* Industries_Worked list each client / industry at most once, and
\* Total_Hours_Billed is the sum of the employee's Hours_Billed, each
\* billing row counted exactly once.
C16_SearchOneRowPerEmployee ==
    op = "complex_search" =>
        /\ C16_AtMostOneRowPerEmployee
        /\ C16_EveryEmployeeOnce
        /\ C16_ListsDistinct
        /\ C16_TotalHours

\* no two rows of table t have the same value in column f
UniqueKey(t, f) == \A i, j \in DOMAIN t : t[i][f] = t[j][f] => i = j

\* the billing columns of a result row
BillingPart(row) ==
    [Billing_Code |-> row.Billing_Code, Employee_ID |-> row.Employee_ID,
     Year |-> row.Year, Hours_Billed |-> row.Hours_Billed,
     Role_in_Project |-> row.Role_in_Project]

\* C17: get_billing_by_employee(None) and get_billing_by_project(None) do
\* not raise and return a row for every Billing row, also for one whose
\* Employee_ID matches no employee or whose Billing_Code matches no project,
\* the joined employee / project columns then being NULL; when Employee_ID
\* is unique in employees and Billing_Code in projects, the result has
\* exactly as many rows as the Billing table.
C17_DanglingBillingRowsKept ==
    (op \in {"get_billing_by_employee", "get_billing_by_project"} /\ args = NoArgs) =>
        /\ ~raised
        /\ \A m \in DOMAIN conn.billing :
              LET b == conn.billing[m]
                  same == {k \in DOMAIN conn.billing : conn.billing[k] = b}
                  rows == {i \in DOMAIN result : BillingPart(result[i]) = b}
              IN  /\ Cardinality(rows) >= Cardinality(same)
                  /\ b.Employee_ID \notin Column(conn.employees, "Employee_ID") =>
                        \A i \in rows : result[i].Name = Null
                  /\ b.Billing_Code \notin Column(conn.projects, "Billing_Code") =>
                        \A i \in rows : /\ result[i].Project_Name = Null
                                        /\ result[i].Client = Null
        /\ ( /\ UniqueKey(conn.employees, "Employee_ID")
             /\ UniqueKey(conn.projects, "Billing_Code") )
           => Len(result) = Len(conn.billing)

\* all employees' records have been asked for; one of the three billing
\* rows refers to no employee and to no project, and is returned with NULL
\* employee and project columns
C17_Witness ==
    /\ op = "get_billing_by_employee"
    /\ args = NoArgs
    /\ Len(conn.billing) = 3
    /\ Len(result) = 3
    /\ \E i \in DOMAIN result :
          /\ result[i].Employee_ID = V(0)
          /\ result[i].Billing_Code = V(<<"X">>)
          /\ result[i].Name = Null
          /\ result[i].Project_Name = Null

\* the deliverables that share the Billing_Code of a billing row
DeliverablesOf(b) ==
    {d \in DOMAIN conn.deliverables : conn.deliverables[d].Billing_Code = b.Billing_Code}

\* for every billing row, the number of rows it is to have in the history
HistoryRowsPerBilling ==
    [m \in DOMAIN conn.billing |->
        [Rows |-> LET n == Cardinality(DeliverablesOf(conn.billing[m]))
                  IN  V(IF n = 0 THEN 1 ELSE n)]]

\* C18: for an existing employee get_employee_project_history returns one
\* row per pair (billing row of the employee, deliverable with that billing
\* row's Billing_Code) and one row with a NULL deliverable per billing row
\* without deliverable, so that the row count is the sum over the
\* employee's billing rows of max(1, number of deliverables of the code);
\* for an employee_id that matches no employee it returns no row.
C18_HistoryRowPerBillingDeliverable ==
    op = "get_employee_project_history" =>
        LET id == args.employee_id
            own == {m \in DOMAIN conn.billing : conn.billing[m].Employee_ID = id}
            of(m) == {i \in DOMAIN result :
                        /\ result[i].Year = conn.billing[m].Year
                        /\ result[i].Hours_Billed = conn.billing[m].Hours_Billed
                        /\ result[i].Role_in_Project = conn.billing[m].Role_in_Project}
        IN  IF id \in Column(conn.employees, "Employee_ID")
            THEN /\ Len(result) = SumOver(HistoryRowsPerBilling, "Rows", own)
                 /\ \A m \in own :
                       IF DeliverablesOf(conn.billing[m]) = {}
                       THEN \E i \in of(m) : result[i].Deliverable = Null
                       ELSE \A d \in DeliverablesOf(conn.billing[m]) :
                               \E i \in of(m) :
                                  result[i].Deliverable = conn.deliverables[d].Deliverable
            ELSE result = << >>

\* two rows of the history the page was given agree on the shown columns
\* v and differ in their deliverable
DifferOnlyInDeliverable(v, withIndustry) ==
    LET history == get_employee_project_history(conn, args.employee_id).rows
    IN  \E h1, h2 \in DOMAIN history :
            /\ ShownColumns(history[h1], withIndustry) = v
            /\ ShownColumns(history[h2], withIndustry) = v
            /\ history[h1].Deliverable # history[h2].Deliverable

\* C19: every place that shows the result of get_employee_project_history
\* de-duplicates it first: the table shown never has two rows that agree on
\* all displayed project columns because the project has several
\* deliverables.
C19_ShownHistoryDeduplicated ==
    op \in {"page_employee_directory", "page_resume_matrix", "page_staffing_matrix"} =>
        \A i, j \in DOMAIN result :
            (i # j /\ result[i] = result[j]) =>
                ~DifferOnlyInDeliverable(result[i], op # "page_employee_directory")

\* the Standard_Roles employee row e reaches through its Role_ID: NULL when
\* no role carries it
RolesOf(e) ==
    LET m == {r \in DOMAIN conn.roles : SqlEq(conn.roles[r].Role_ID, e.Role_ID)}
    IN  IF m = {} THEN {Null} ELSE {conn.roles[r].Standard_Role : r \in m}

\* the employees (rows of the employees table) of the group of a role
EmployeesOfRole(role) ==
    {e \in DOMAIN conn.employees : role \in RolesOf(conn.employees[e])}

\* C20: get_analytics_by_role returns one row per distinct Standard_Role
\* reached by Employee left-joined to Role, the employees whose Role_ID
\* matches no role forming the group of the NULL role; Employee_Count is the
\* number of employees of the group, Locations lists each location of the
\* group once, and with Role_ID unique in roles the Employee_Counts add up
\* to the number of employees.
C20_RoleGroupsCountEmployees ==
    op = "get_analytics_by_role" =>
        LET reached == UNION {RolesOf(conn.employees[e]) : e \in DOMAIN conn.employees}
        IN  /\ Len(result) = Cardinality(reached)
            /\ \A i \in DOMAIN result :
                  LET group == EmployeesOfRole(result[i].Standard_Role)
                      locations == {conn.employees[e].Location : e \in group} \ {Null}
                  IN  /\ result[i].Standard_Role \in reached
                      /\ result[i].Employee_Count = V(Cardinality(group))
                      /\ IF locations = {} THEN result[i].Locations = Null
                         ELSE /\ result[i].Locations # Null
                              /\ \A l \in locations :
                                    Occurrences(Val(l), Val(result[i].Locations)) = 1
                              /\ Occurrences(<<",">>, Val(result[i].Locations))
                                    = Cardinality(locations) - 1
            /\ UniqueKey(conn.roles, "Role_ID") =>
                  SumOver(result, "Employee_Count", DOMAIN result) = Len(conn.employees)

\* C21: load is all-or-nothing.  When read_csv raises on one of the six
\* files, the constructor raises and no caller gets the instance: the run
\* of the dashboard ends in init_database and leaves no 'db' in
\* st.session_state.  The instance that st.session_state holds has all six
\* tables, and so has every instance that a query is answered from.
C21_LoadIsAllOrNothing ==
    /\ (session.runs > 0 /\ \E t \in TableNames : read_csv(files[t]).raised)
          => /\ store.phase = "failed"
             /\ ~session.db
             /\ op = "init_database"
             /\ raised
    /\ session.db => (store.phase = "loaded" /\ store.tables = TableOrder)
    /\ op \in SqlOperations \cup {"get_analytics_by_skill", "employees_df"}
          => store.tables = TableOrder

\* a load that failed after it had filled the first tables, in a session
\* that has run the script again since
C21_Witness ==
    /\ session.runs > 1
    /\ store.phase = "failed"
    /\ store.tables # << >>
    /\ conn.employees # << >>
    /\ ~session.db
    /\ raised

\* C22: the loader fails at load time when a source file is missing or when
\* the columns of a file are not those of its entity: an instance reaches
\* the loaded state only if all six files are there, each with exactly the
\* columns of its entity.
C22_LoaderRejectsBadFiles ==
    store.phase = "loaded"
        => \A t \in TableNames :
              /\ files[t].exists
              /\ files[t].header = V(EntityColumns[t])

\* C23: within one dashboard session the store is constructed and loaded
\* exactly once, on the first run of the script: after the first run
\* init_database has been called once, and no later run calls it again.
C23_LoadedOnceInFirstRun == session.runs >= 1 => session.loads = 1

\* the lines of the file after its header row / those of them that are
\* not empty
DataLines(file) == Len(file.body)
Records(file) == Len(SelectSeq(file.body, LAMBDA line : line.kind = "record"))

UnfilteredSearch == complex_search(conn, None, None, None, None, None, None).rows

\* C25: in complex_search, for every returned employee, Clients_Worked,
\* Industries_Worked and Total_Hours_Billed are computed over all billing
\* rows of that employee, and are what the call without filters returns
\* for that employee.
C25_AggregatesIgnoreFilters ==
    op = "complex_search" =>
        \A i \in DOMAIN result :
            /\ result[i].Total_Hours_Billed = HoursOfEmployee(result[i].Employee_ID)
            /\ \E j \in DOMAIN UnfilteredSearch :
                  /\ UnfilteredSearch[j].Employee_ID = result[i].Employee_ID
                  /\ UnfilteredSearch[j].Clients_Worked = result[i].Clients_Worked
                  /\ UnfilteredSearch[j].Industries_Worked = result[i].Industries_Worked
                  /\ UnfilteredSearch[j].Total_Hours_Billed = result[i].Total_Hours_Billed

\* the rows of a table, as a set
RowsOf(t) == {t[i] : i \in DOMAIN t}

\* the rows of the unfiltered result that every one of the single-filter
\* results has, in the order of the unfiltered result
CommonRows(unfiltered, singles) ==
    SelectSeq(unfiltered, LAMBDA row : \A k \in DOMAIN singles : row \in RowsOf(singles[k]))

\* the unfiltered result and the single-filter results of the three
\* operations, for the arguments of the last call
DirectoryUnfiltered == get_employee_directory(conn, None, None, None, None).rows
DirectorySingles ==
    <<get_employee_directory(conn, args.skills, None, None, None).rows,
      get_employee_directory(conn, None, args.role, None, None).rows,
      get_employee_directory(conn, None, None, args.location, None).rows,
      get_employee_directory(conn, None, None, None, args.title).rows>>
ProjectsUnfiltered == get_projects_dashboard(conn, None, None, None, None, None).rows
ProjectsSingles ==
    <<get_projects_dashboard(conn, args.client, None, None, None, None).rows,
      get_projects_dashboard(conn, None, args.technology, None, None, None).rows,
      get_projects_dashboard(conn, None, None, args.min_amount, None, None).rows,
      get_projects_dashboard(conn, None, None, None, args.max_amount, None).rows,
      get_projects_dashboard(conn, None, None, None, None, args.industry).rows>>
DeliverablesUnfiltered == get_deliverables_tracker(conn, None, None, None, None).rows
DeliverablesSingles ==
    <<get_deliverables_tracker(conn, args.billing_code, None, None, None).rows,
      get_deliverables_tracker(conn, None, args.topic_area, None, None).rows,
      get_deliverables_tracker(conn, None, None, args.client, None).rows,
      get_deliverables_tracker(conn, None, None, None, args.technology).rows>>

\* C26: in get_employee_directory, get_projects_dashboard and
\* get_deliverables_tracker the filters combine by conjunction: the result
\* of a call is the unfiltered result cut down, in its order, to the rows
\* that every single-filter call with one of the call's arguments returns.
C26_FiltersCombineByConjunction ==
    /\ op = "get_employee_directory"
          => result = CommonRows(DirectoryUnfiltered, DirectorySingles)
    /\ op = "get_projects_dashboard"
          => result = CommonRows(ProjectsUnfiltered, ProjectsSingles)
    /\ op = "get_deliverables_tracker"
          => result = CommonRows(DeliverablesUnfiltered, DeliverablesSingles)

\* a directory call with a role and a location filter that returns rows,
\* fewer than each of the two filters alone
C26_Witness ==
    /\ op = "get_employee_directory"
    /\ TruthySeq(args.role)
    /\ TruthySeq(args.location)
    /\ result # << >>
    /\ Len(result) < Len(DirectorySingles[2])
    /\ Len(result) < Len(DirectorySingles[3])

\* the Employee_IDs of the rows of a table
IdsOf(t) == {t[i].Employee_ID : i \in DOMAIN t}

\* the staffing matrix lists its candidates in descending order of score,
\* each with the score of match_data, 80 when match_data has none
C27_ScoredAndSorted ==
    /\ \A i \in DOMAIN session.candidates :
          session.candidates[i].AI_Fit_Score
              = V(AI_Fit_Score(session.candidates[i].Employee_ID))
    /\ \A i, j \in DOMAIN session.candidates :
          i < j => Val(session.candidates[i].AI_Fit_Score)
                      >= Val(session.candidates[j].AI_Fit_Score)

\* the candidates are matched employees, five of them or all
C27_AtMostFive ==
    /\ IdsOf(session.candidates) \subseteq IdsOf(result)
    /\ Len(session.candidates)
          = (IF Len(result) < TopCandidates THEN Len(result) ELSE TopCandidates)

\* no matched employee that is left out has a higher score than one shown
C27_HighestScores ==
    \A id \in IdsOf(result) \ IdsOf(session.candidates) :
        \A i \in DOMAIN session.candidates :
            AI_Fit_Score(id) <= Val(session.candidates[i].AI_Fit_Score)

\* C27: the candidates shown in the AI staffing matrix are the (at most
\* five) employees with the highest fit scores among all employees that
\* the directory lookup matched, in descending order of fit score, the
\* score being the hardcoded value for the Employee_ID or 80.
C27_TopFiveByFitScore ==
    "staffing_matrix" \in session.shown =>
        /\ C27_ScoredAndSorted
        /\ C27_AtMostFive
        /\ C27_HighestScores

\* the query operations of the store
QueryOperations ==
    {"get_employee_directory", "get_projects_dashboard", "get_billing_by_employee",
     "get_billing_by_project", "get_billing_by_year", "get_resume_matrix",
     "get_deliverables_tracker", "get_analytics_by_industry",
     "get_analytics_by_skill", "get_analytics_by_role", "complex_search",
     "get_employee_project_history"}

\* C28: after close() no query operation returns a result table: every
\* query operation called on the closed store raises, and none serves data.
C28_ClosedStoreServesNothing ==
    (store.phase = "closed" /\ op \in QueryOperations) => (raised /\ result = << >>)

QuickSearchButtons == {"quick_search_1", "quick_search_2", "quick_search_3"}

\* the arguments a carry the preset criteria of the quick-search button
HasPreset(a, button) ==
    CASE button = "quick_search_1" ->
            /\ a.skills = V(<<Python>>)
            /\ a.role = V(SeniorEngineer)
            /\ a.location = V(Texas)
            /\ a.industry_experience = V(LawEnforcement)
      [] button = "quick_search_2" ->
            /\ a.skills = V(<<CV, OpenCV>>)
            /\ a.client_experience = V(Federal)
      [] button = "quick_search_3" ->
            /\ a.skills = V(<<DataScience>>)
            /\ a.role = V(DivisionDirector)
      [] OTHER -> FALSE

\* the run has called db.complex_search with the preset of the button
SearchedPreset(button) == op = "complex_search" /\ HasPreset(args, button)

\* C29: on the Complex Search page a click on a quick-search button leads
\* to db.complex_search being called with the preset criteria of that
\* button: if the run of the click has not made that call, the click on
\* Search that follows makes it.
C29_QuickSearchRunsPreset ==
    [][(/\ session.click \in QuickSearchButtons
        /\ ~SearchedPreset(session.click)
        /\ session'.click = "search")
          => (op' = "complex_search" /\ HasPreset(args', session.click))]_vars

\* a click on Email Candidates while the matrix is shown sets
\* show_email_modal and opens the dialog
C30_ClickOpensModal ==
    ("staffing_matrix" \in session.shown /\ session'.click = "email_candidates")
        => (session'.show_email_modal = V(TRUE) /\ "email_modal" \in session'.shown)

\* the dialog stays while the user stays on the page and clicks neither
\* Send Emails nor Cancel
C30_ModalStays ==
    (/\ "email_modal" \in session.shown
     /\ session'.page = session.page
     /\ session'.click \notin {"send_emails", "cancel"})
        => (session'.show_email_modal = V(TRUE) /\ "email_modal" \in session'.shown)

\* Send Emails and Cancel close it
C30_SendOrCancelCloses ==
    ("email_modal" \in session.shown /\ session'.click \in {"send_emails", "cancel"})
        => (session'.show_email_modal = V(FALSE) /\ "email_modal" \notin session'.shown)

\* C30: on the AI Staffing Matrix page a click on "Email Candidates" while
\* the staffing matrix is shown, whether a file was uploaded or the sample
\* button was clicked, makes show_email_modal True and displays the email
\* dialog; the dialog stays displayed on every following run until "Send
\* Emails" or "Cancel" is clicked, after which show_email_modal is False
\* and the dialog is gone.
C30_EmailModalOpensAndStays ==
    [][C30_ClickOpensModal /\ C30_ModalStays /\ C30_SendOrCancelCloses]_vars

====
